---------------------------- MODULE Spec2Model ----------------------------
(***************************************************************************)
(* Droste zoom editor: the loop controller, the export run and the         *)
(* homography solver of DrosteCanvas.tsx, App.tsx and utils/math.ts.       *)
(*                                                                         *)
(* Numbers.  A JavaScript number is modelled as an extended rational       *)
(* [n, d]: d > 0 is the finite value n/d in lowest terms, d = 0 is a       *)
(* non-finite value (n = 0 NaN, n = 1 +Infinity, n = -1 -Infinity).        *)
(* Arithmetic follows IEEE-754 for the non-finite cases and is exact on    *)
(* finite values (no rounding, no signed zero).  A magnitude too small for *)
(* a quotient of two integers of the checker carries a scale e >= 1:       *)
(* [n, d, e] is the value n/d * 10^(-6e).  Math.sqrt and Math.log are      *)
(* applied to numbers without a scale only.                                *)
(***************************************************************************)
EXTENDS Integers, Sequences, FiniteSets, TLC

---------------------------------------------------------------------------
(* Extended rational arithmetic: the semantics of +, -, *, /, <, Math.abs, *)
(* Math.max, Math.min, Math.floor, isNaN and isFinite on numbers.          *)

Abs(i) == IF i < 0 THEN -i ELSE i

RECURSIVE GCD(_, _)
GCD(a, b) == IF b = 0 THEN a ELSE GCD(b, a % b)

NaN == [n |-> 0, d |-> 0]
PosInf == [n |-> 1, d |-> 0]
NegInf == [n |-> -1, d |-> 0]

Sgn(i) == IF i > 0 THEN 1 ELSE IF i < 0 THEN -1 ELSE 0

\* The number num/den for integers num and den (den = 0 gives NaN or an infinity).
Rat(num, den) ==
    IF den = 0 THEN [n |-> Sgn(num), d |-> 0]
    ELSE LET g == GCD(Abs(num), Abs(den))
             s == IF den < 0 THEN -1 ELSE 1
         IN  [n |-> s * (num \div g), d |-> s * (den \div g)]

Num(i) == [n |-> i, d |-> 1]
Zero == Num(0)
One == Num(1)

\* The scale of a number: the e of n/d * Micro^(-e).
Micro == 1000000
Scaled(x) == "e" \in DOMAIN x
ScaleOf(x) == IF Scaled(x) THEN x.e ELSE 0

\* The number num/den * Micro^(-e), with no scale where e <= 0 allows it.
RECURSIVE SRat(_, _, _)
SRat(num, den, e) ==
    IF num = 0 \/ den = 0 \/ e = 0 THEN Rat(num, den)
    ELSE IF e < 0 THEN SRat(num * Micro, den, e + 1)
    ELSE IF num % Micro = 0 THEN SRat(num \div Micro, den, e - 1)
    ELSE [n |-> Rat(num, den).n, d |-> Rat(num, den).d, e |-> e]

\* Micro^k.
RECURSIVE MicroPow(_)
MicroPow(k) == IF k <= 0 THEN 1 ELSE Micro * MicroPow(k - 1)

\* a * Micro^(-ea) < b * Micro^(-eb) for integers a > 0 and b > 0 (an integer
\* above 2147 times Micro exceeds every integer of the checker).
RECURSIVE PosLess(_, _, _, _)
PosLess(a, ea, b, eb) ==
    IF ea = eb THEN a < b
    ELSE IF ea > eb THEN (IF b > 2147 THEN TRUE ELSE PosLess(a, ea - 1, b * Micro, eb))
    ELSE IF a > 2147 THEN FALSE ELSE PosLess(a * Micro, ea, b, eb - 1)

IsNaN(x) == x.d = 0 /\ x.n = 0
IsFinite(x) == x.d > 0
IsInf(x) == x.d = 0 /\ x.n # 0

RNeg(x) == [x EXCEPT !.n = -x.n]

RAdd(x, y) ==
    IF IsNaN(x) \/ IsNaN(y) THEN NaN
    ELSE IF IsInf(x) THEN (IF IsInf(y) /\ y.n # x.n THEN NaN ELSE x)
    ELSE IF IsInf(y) THEN y
    ELSE IF Scaled(x) \/ Scaled(y)
         THEN IF x.n = 0 THEN y
              ELSE IF y.n = 0 THEN x
              ELSE LET e == IF ScaleOf(x) > ScaleOf(y) THEN ScaleOf(x) ELSE ScaleOf(y)
                   IN  SRat(x.n * MicroPow(e - ScaleOf(x)) * y.d
                              + y.n * MicroPow(e - ScaleOf(y)) * x.d,
                            x.d * y.d, e)
    ELSE LET g == GCD(x.d, y.d)
         IN  Rat(x.n * (y.d \div g) + y.n * (x.d \div g), (x.d \div g) * y.d)

RSub(x, y) == RAdd(x, RNeg(y))

RMul(x, y) ==
    IF IsNaN(x) \/ IsNaN(y) THEN NaN
    ELSE IF IsInf(x) \/ IsInf(y)
         THEN [n |-> Sgn(x.n) * Sgn(y.n), d |-> 0]   \* Infinity * 0 is NaN
    ELSE IF Scaled(x) \/ Scaled(y)
         THEN SRat(x.n * y.n, x.d * y.d, ScaleOf(x) + ScaleOf(y))
    ELSE LET g == GCD(Abs(x.n), y.d)
             h == GCD(Abs(y.n), x.d)
         IN  Rat((x.n \div g) * (y.n \div h), (x.d \div h) * (y.d \div g))

RDiv(x, y) ==
    IF IsNaN(x) \/ IsNaN(y) THEN NaN
    ELSE IF IsInf(x) THEN (IF IsInf(y) THEN NaN
                           ELSE [n |-> x.n * (IF y.n < 0 THEN -1 ELSE 1), d |-> 0])
    ELSE IF IsInf(y) THEN Zero
    ELSE IF Scaled(x) \/ Scaled(y)
         THEN SRat(x.n * y.d, x.d * y.n, ScaleOf(x) - ScaleOf(y))
    ELSE Rat(x.n * y.d, x.d * y.n)                   \* x/0 is +-Infinity, 0/0 NaN

\* x < y; every comparison with NaN is false.
RLt(x, y) ==
    IF IsNaN(x) \/ IsNaN(y) THEN FALSE
    ELSE IF IsInf(x) THEN x.n < 0 /\ ~(IsInf(y) /\ y.n < 0)
    ELSE IF IsInf(y) THEN y.n > 0
    ELSE IF Scaled(x) \/ Scaled(y)
         THEN LET a == x.n * y.d
                  b == y.n * x.d
              IN  IF a <= 0 /\ b >= 0 THEN a < 0 \/ b > 0
                  ELSE IF a >= 0 /\ b <= 0 THEN FALSE
                  ELSE IF a > 0 THEN PosLess(a, ScaleOf(x), b, ScaleOf(y))
                  ELSE PosLess(-b, ScaleOf(y), -a, ScaleOf(x))
    ELSE x.n * y.d < y.n * x.d

RGt(x, y) == RLt(y, x)
RLe(x, y) == ~IsNaN(x) /\ ~IsNaN(y) /\ ~RLt(y, x)
RGe(x, y) == RLe(y, x)

RAbs(x) == [x EXCEPT !.n = Abs(x.n)]

\* Math.max and Math.min return NaN when either argument is NaN.
RMax(x, y) == IF IsNaN(x) \/ IsNaN(y) THEN NaN ELSE IF RLt(x, y) THEN y ELSE x
RMin(x, y) == IF IsNaN(x) \/ IsNaN(y) THEN NaN ELSE IF RLt(y, x) THEN y ELSE x

\* Integer floor of num/den for den > 0 (\div rounds toward minus infinity).
RFloor(x) ==
    IF x.d = 0 THEN x
    ELSE IF Scaled(x)
         THEN IF x.e > 1 \/ x.d > 2147 THEN Num(IF x.n < 0 THEN -1 ELSE 0)
              ELSE Num(x.n \div (x.d * Micro))
    ELSE Num(x.n \div x.d)

---------------------------------------------------------------------------
(* Math.sqrt and Math.log.  Sqrt is exact on squares of rationals and      *)
(* rounds down to a multiple of 1/SqrtDen otherwise.  Lg is the base-2     *)
(* logarithm, exact at powers of two and linear in between (the chord of   *)
(* the real logarithm): Lg(1) = 0, Lg is strictly increasing, Lg(0) is     *)
(* -Infinity and Lg of a negative number or NaN is NaN, as Math.log.  A    *)
(* quotient of two logarithms does not depend on the base, and Ln scales   *)
(* Lg by ln 2 (rounded to 693/1000) where the code uses the natural        *)
(* logarithm's value itself.                                               *)

SqrtDen == 8

RECURSIVE ISqrtFrom(_, _)
ISqrtFrom(r, k) == IF (r + 1) * (r + 1) > k THEN r ELSE ISqrtFrom(r + 1, k)

\* The integer square root: the largest r with r * r <= k.
ISqrt(k) == ISqrtFrom(0, k)

IsSquare(k) == ISqrt(k) * ISqrt(k) = k

Sqrt(x) ==
    IF IsNaN(x) THEN NaN
    ELSE IF x.d = 0 THEN (IF x.n > 0 THEN PosInf ELSE NaN)
    ELSE IF x.n < 0 THEN NaN
    ELSE IF IsSquare(x.n) /\ IsSquare(x.d) THEN Rat(ISqrt(x.n), ISqrt(x.d))
    ELSE Rat(ISqrt((x.n * SqrtDen * SqrtDen) \div x.d), SqrtDen)

\* For a finite x >= 1: the pair <<e, 2^e>> with 2^e <= x < 2^(e+1).
RECURSIVE Pow2Below(_, _, _)
Pow2Below(x, e, p) ==
    IF x.n < 2 * p * x.d THEN <<e, p>> ELSE Pow2Below(x, e + 1, 2 * p)

\* For a finite 0 < x < 1: the pair <<e, 2^e>> with 1/2^e <= x < 2/2^e.
RECURSIVE Pow2Above(_, _, _)
Pow2Above(x, e, p) ==
    IF x.n * p >= x.d THEN <<e, p>> ELSE Pow2Above(x, e + 1, 2 * p)

Lg(x) ==
    IF IsNaN(x) THEN NaN
    ELSE IF x.d = 0 THEN (IF x.n > 0 THEN PosInf ELSE NaN)
    ELSE IF x.n < 0 THEN NaN
    ELSE IF x.n = 0 THEN NegInf
    ELSE IF x.n >= x.d
         THEN LET ep == Pow2Below(x, 0, 1)
              IN  RAdd(Num(ep[1] - 1), Rat(x.n, x.d * ep[2]))
         ELSE LET ep == Pow2Above(x, 0, 1)
              IN  RAdd(Num(-ep[1] - 1), Rat(x.n * ep[2], x.d))

Ln(x) == RMul(Lg(x), Rat(693, 1000))

---------------------------------------------------------------------------
(* Types and constants of types.ts, App.tsx and DrosteCanvas.tsx.          *)

DirIN == "in"
DirOUT == "out"
DirSTOP == "stop"
TRANSFORM == "transform"
CORNER == "corner"

Pt(x, y) == [x |-> x, y |-> y]
Corners == {"p1", "p2", "p3", "p4"}

\* The quad INITIAL_QUAD is created with: centred, half the image each way.
CenteredQuad ==
    [p1 |-> Pt(Rat(1, 4), Rat(1, 4)), p2 |-> Pt(Rat(3, 4), Rat(1, 4)),
     p3 |-> Pt(Rat(3, 4), Rat(3, 4)), p4 |-> Pt(Rat(1, 4), Rat(3, 4))]

\* Bounds of the model.
MaxTick == 2          \* animation frames arrive at 500 ms, 1000 ms, ... MaxTick * 500 ms
MaxEvents == 4        \* uploads, toolbar clicks and pointer moves of one behaviour
MaxFrames == 12       \* export runs of more frames are not followed past their start

FrameTimes == {k * 500 : k \in 1..MaxTick}
Sources == 1..MaxEvents
NoImage == 0

\* Pixel size of the image behind source src.
ImageWidth(src) == 8
ImageHeight(src) == IF src % 2 = 1 THEN 8 ELSE 4

\* Speeds the slider is moved to (its range is 0.1 to 5) and pointer positions
\* in normalised image coordinates, as getMousePos returns them.
Speeds == {One, Num(5)}
PointerPositions == {Pt(One, One)}

---------------------------------------------------------------------------
(* utils/math.ts: the linear solver and the homography.  Arrays are tuples, *)
(* so index 1 here is index 0 of the code.                                 *)

\* The tuple of F(1) .. F(8): an array of solveLinearSystem's n = 8 entries.
Vec(F(_)) == <<F(1), F(2), F(3), F(4), F(5), F(6), F(7), F(8)>>

Identity == <<One, Zero, Zero, Zero, One, Zero, Zero, Zero, One>>

\* x < 1e-10, for the x of `maxEl < 1e-10` (an absolute value or NaN).
BelowPivotThreshold(x) ==
    /\ IsFinite(x)
    /\ IF Scaled(x) THEN RLt(x, [n |-> 1, d |-> 10000, e |-> 1])
       ELSE x.n <= ((x.d - 1) \div 100000) \div 100000

\* The pivot search of column i: the scan of rows k, k + 1, ... with the row of
\* the largest absolute value so far in maxRow.
RECURSIVE PivotRow(_, _, _, _)
PivotRow(A, i, k, maxRow) ==
    IF k > 8 THEN maxRow
    ELSE PivotRow(A, i, k + 1,
                  IF RGt(RAbs(A[k][i]), RAbs(A[maxRow][i])) THEN k ELSE maxRow)

\* Rows i and maxRow of A exchanged in columns i and up.
SwapRows(A, i, maxRow) ==
    LET Row(r) ==
            LET El(c) == IF c < i THEN A[r][c]
                         ELSE IF r = i THEN A[maxRow][c]
                         ELSE IF r = maxRow THEN A[i][c]
                         ELSE A[r][c]
            IN  Vec(El)
    IN  Vec(Row)

SwapEntries(B, i, maxRow) ==
    LET El(r) == IF r = i THEN B[maxRow] ELSE IF r = maxRow THEN B[i] ELSE B[r]
    IN  Vec(El)

\* The elimination of column i from the rows below row i.
EliminateA(A, i) ==
    LET Row(k) ==
            LET c == RDiv(RNeg(A[k][i]), A[i][i])
                El(j) == IF k <= i \/ j < i THEN A[k][j]
                         ELSE IF j = i THEN Zero
                         ELSE RAdd(A[k][j], RMul(c, A[i][j]))
            IN  Vec(El)
    IN  Vec(Row)

EliminateB(A, B, i) ==
    LET El(k) == IF k <= i THEN B[k]
                 ELSE RAdd(B[k], RMul(RDiv(RNeg(A[k][i]), A[i][i]), B[i]))
    IN  Vec(El)

\* The first loop of solveLinearSystem from column i on: the triangular system
\* it leaves, or singular when a column's largest entry is below 1e-10.
RECURSIVE Triangular(_, _, _)
Triangular(A, B, i) ==
    IF i > 8 THEN [singular |-> FALSE, A |-> A, B |-> B]
    ELSE LET maxRow == PivotRow(A, i, i + 1, i)
             maxEl == RAbs(A[maxRow][i])
             A1 == SwapRows(A, i, maxRow)
             B1 == SwapEntries(B, i, maxRow)
         IN  IF BelowPivotThreshold(maxEl)
             THEN [singular |-> TRUE, A |-> A, B |-> B]
             ELSE Triangular(EliminateA(A1, i), EliminateB(A1, B1, i), i + 1)

\* sum of the back substitution of row i: A[i][j] * X[j] for j, j + 1, .. 8
\* added to sum, where X holds the entries of rows i + 1 .. 8.
RECURSIVE RowSum(_, _, _, _, _)
RowSum(A, X, i, j, sum) ==
    IF j > 8 THEN sum
    ELSE RowSum(A, X, i, j + 1, RAdd(sum, RMul(A[i][j], X[j - i])))

\* The back substitution, X holding the entries of the rows below row i done
\* so far.
RECURSIVE BackSubstitute(_, _, _)
BackSubstitute(A, B, X) ==
    LET i == 8 - Len(X)
    IN  IF i < 1 THEN X
        ELSE BackSubstitute(A, B,
                 <<RDiv(RSub(B[i], RowSum(A, X, i, i + 1, Zero)), A[i][i])>> \o X)

solveLinearSystem(A, B) ==
    LET t == Triangular(A, B, 1)
    IN  IF t.singular THEN Vec(LAMBDA i : Zero)
        ELSE BackSubstitute(t.A, t.B, << >>)

\* The rows of `systems` in computeHomography, the last entry of a row being B's.
Systems(srcWidth, srcHeight, dst) ==
    LET x0 == dst.p1.x   y0 == dst.p1.y
        x1 == dst.p2.x   y1 == dst.p2.y
        x2 == dst.p3.x   y2 == dst.p3.y
        x3 == dst.p4.x   y3 == dst.p4.y
        w == srcWidth
        h == srcHeight
        M(a, b) == RMul(RNeg(a), b)
    IN  << <<Zero, Zero, One, Zero, Zero, Zero, M(Zero, x0), M(Zero, x0), x0>>,
           <<Zero, Zero, Zero, Zero, Zero, One, M(Zero, y0), M(Zero, y0), y0>>,
           <<w, Zero, One, Zero, Zero, Zero, M(w, x1), M(Zero, x1), x1>>,
           <<Zero, Zero, Zero, w, Zero, One, M(w, y1), M(Zero, y1), y1>>,
           <<w, h, One, Zero, Zero, Zero, M(w, x2), M(h, x2), x2>>,
           <<Zero, Zero, Zero, w, h, One, M(w, y2), M(h, y2), y2>>,
           <<Zero, h, One, Zero, Zero, Zero, M(Zero, x3), M(h, x3), x3>>,
           <<Zero, Zero, Zero, Zero, h, One, M(Zero, y3), M(h, y3), y3>> >>

SystemA(srcWidth, srcHeight, dst) ==
    LET sys == Systems(srcWidth, srcHeight, dst)
        Row(r) == SubSeq(sys[r], 1, 8)
    IN  Vec(Row)

SystemB(srcWidth, srcHeight, dst) ==
    LET sys == Systems(srcWidth, srcHeight, dst)
        El(r) == sys[r][9]
    IN  Vec(El)

\* A variant of computeHomography that returns the solver's X without looking
\* at it.
computeHomographyUnchecked(srcWidth, srcHeight, dst) ==
    solveLinearSystem(SystemA(srcWidth, srcHeight, dst),
                      SystemB(srcWidth, srcHeight, dst)) \o <<One>>

computeHomography(srcWidth, srcHeight, dst) ==
    LET X == solveLinearSystem(SystemA(srcWidth, srcHeight, dst),
                               SystemB(srcWidth, srcHeight, dst))
    IN  IF \E i \in 1..8 : IsNaN(X[i]) \/ ~IsFinite(X[i])
        THEN Identity
        ELSE X \o <<One>>

\* Entry (i, j) of a 3x3 matrix kept row by row in an array of nine numbers
\* (the code's m[i * 3 + j] with i and j from 0).
At(m, i, j) == m[(i - 1) * 3 + j]

multiplyMatrix(a, b) ==
    LET C(i, j) == RAdd(RAdd(RAdd(Zero, RMul(At(a, i, 1), At(b, 1, j))),
                             RMul(At(a, i, 2), At(b, 2, j))),
                        RMul(At(a, i, 3), At(b, 3, j)))
    IN  <<C(1, 1), C(1, 2), C(1, 3),
          C(2, 1), C(2, 2), C(2, 3),
          C(3, 1), C(3, 2), C(3, 3)>>

\* det of invertMatrix.
Determinant(m) ==
    LET m00 == m[1]   m01 == m[2]   m02 == m[3]
        m10 == m[4]   m11 == m[5]   m12 == m[6]
        m20 == m[7]   m21 == m[8]   m22 == m[9]
        b01 == RSub(RMul(m22, m11), RMul(m12, m21))
        b11 == RAdd(RMul(RNeg(m22), m10), RMul(m12, m20))
        b21 == RSub(RMul(m21, m10), RMul(m11, m20))
    IN  RAdd(RAdd(RMul(m00, b01), RMul(m01, b11)), RMul(m02, b21))

\* The quotients invertMatrix returns when it does not return the identity.
Adjugate(m, det) ==
    LET m00 == m[1]   m01 == m[2]   m02 == m[3]
        m10 == m[4]   m11 == m[5]   m12 == m[6]
        m20 == m[7]   m21 == m[8]   m22 == m[9]
        b01 == RSub(RMul(m22, m11), RMul(m12, m21))
        b11 == RAdd(RMul(RNeg(m22), m10), RMul(m12, m20))
        b21 == RSub(RMul(m21, m10), RMul(m11, m20))
    IN  <<RDiv(b01, det),
          RDiv(RAdd(RMul(RNeg(m22), m01), RMul(m02, m21)), det),
          RDiv(RSub(RMul(m12, m01), RMul(m02, m11)), det),
          RDiv(b11, det),
          RDiv(RSub(RMul(m22, m00), RMul(m02, m20)), det),
          RDiv(RAdd(RMul(RNeg(m12), m00), RMul(m02, m10)), det),
          RDiv(b21, det),
          RDiv(RAdd(RMul(RNeg(m21), m00), RMul(m01, m20)), det),
          RDiv(RSub(RMul(m11, m00), RMul(m01, m10)), det)>>

\* A variant of invertMatrix without the test of det.
invertMatrixUnguarded(m) == Adjugate(m, Determinant(m))

\* A variant of invertMatrix that divides by det in its first row only.
invertMatrixFirstRow(m) ==
    LET det == Determinant(m)
        adj == Adjugate(m, det)
        raw == Adjugate(m, One)
    IN  IF det = Zero \/ IsNaN(det) THEN Identity
        ELSE <<adj[1], adj[2], adj[3], raw[4], raw[5], raw[6], raw[7], raw[8], raw[9]>>

\* `!det` holds of 0 and of NaN.
invertMatrix(m) ==
    LET det == Determinant(m)
    IN  IF det = Zero \/ IsNaN(det) THEN Identity ELSE Adjugate(m, det)

\* getMatrixPower2x2's EPS = 1e-9, and its square.
EPS == [n |-> 1, d |-> 1000, e |-> 1]
EPSSquared == [n |-> 1, d |-> 1, e |-> 3]

\* Math.pow(x, t) for t = 0 and t = 1: Math.pow(x, 0) is 1 for every x, NaN
\* included, and Math.pow(x, 1) is x.
MathPow(x, t) == IF t = Zero THEN One ELSE x

\* Math.sin(k * theta) / Math.sin(theta) for k = 0 and k = 1 and a theta whose
\* sine is at least EPS: 0 / sinTheta = 0 and sinTheta / sinTheta = 1.
SinRatio(k) == IF k = Zero THEN Zero ELSE One

\* The branch getMatrixPower2x2 takes for (a, b, c, d).
PowerBranch(a, b, c, d) ==
    LET trace == RAdd(a, d)
        det == RSub(RMul(a, d), RMul(b, c))
        delta == RSub(RMul(trace, trace), RMul(Num(4), det))
        sqrtDelta == Sqrt(delta)
        l1 == RDiv(RSub(trace, sqrtDelta), Num(2))
        l2 == RDiv(RAdd(trace, sqrtDelta), Num(2))
    IN  IF RLt(delta, RNeg(EPS)) THEN "complex"
        ELSE IF RLt(RAbs(RSub(l1, l2)), EPS) THEN "repeated"
        ELSE "distinct"

\* getMatrixPower2x2(a, b, c, d, t) for t = 0 and t = 1.  The test
\* Math.abs(sinTheta) < EPS is made on the squares: the square of
\* Math.sin(Math.acos(x)) is 1 - x * x.
getMatrixPower2x2(a, b, c, d, t) ==
    LET trace == RAdd(a, d)
        det == RSub(RMul(a, d), RMul(b, c))
        delta == RSub(RMul(trace, trace), RMul(Num(4), det))
    IN  IF RLt(delta, RNeg(EPS))
        THEN LET r == Sqrt(det)
                 cosTheta == RMax(Num(-1), RMin(One, RDiv(trace, RMul(Num(2), r))))
                 rt == MathPow(r, t)
                 c1 == SinRatio(RSub(One, t))
                 c2 == SinRatio(t)
                 f1 == RMul(rt, c1)
                 f2 == RDiv(RMul(rt, c2), r)
             IN  IF RLt(RSub(One, RMul(cosTheta, cosTheta)), EPSSquared)
                 THEN [a |-> One, b |-> Zero, c |-> Zero, d |-> One]
                 ELSE [a |-> RAdd(RMul(f1, One), RMul(f2, a)),
                       b |-> RAdd(RMul(f1, Zero), RMul(f2, b)),
                       c |-> RAdd(RMul(f1, Zero), RMul(f2, c)),
                       d |-> RAdd(RMul(f1, One), RMul(f2, d))]
        ELSE LET sqrtDelta == Sqrt(delta)
                 l1 == RDiv(RSub(trace, sqrtDelta), Num(2))
                 l2 == RDiv(RAdd(trace, sqrtDelta), Num(2))
             IN  IF RLt(RAbs(RSub(l1, l2)), EPS)
                 THEN LET lt == MathPow(l1, t)
                          invL1 == RDiv(One, l1)
                          Ka == RSub(RMul(a, invL1), One)
                          Kb == RMul(b, invL1)
                          Kc == RMul(c, invL1)
                          Kd == RSub(RMul(d, invL1), One)
                      IN  [a |-> RMul(lt, RAdd(One, RMul(t, Ka))),
                           b |-> RMul(lt, RAdd(Zero, RMul(t, Kb))),
                           c |-> RMul(lt, RAdd(Zero, RMul(t, Kc))),
                           d |-> RMul(lt, RAdd(One, RMul(t, Kd)))]
                 ELSE LET l1t == MathPow(l1, t)
                          l2t == MathPow(l2, t)
                          invDiff == RDiv(One, RSub(l2, l1))
                          c1 == RMul(RSub(RMul(l1t, l2), RMul(l2t, l1)), invDiff)
                          c2 == RMul(RSub(l2t, l1t), invDiff)
                      IN  [a |-> RAdd(c1, RMul(c2, a)),
                           b |-> RAdd(Zero, RMul(c2, b)),
                           c |-> RAdd(Zero, RMul(c2, c)),
                           d |-> RAdd(c1, RMul(c2, d))]

\* part_000 line 17.
SAFE_COORDINATE_LIMIT == 50000

\* transformPointSafe's result for `return null`.
NoPoint == [null |-> TRUE]

\* The w of transformPointSafe: h[6] * x + h[7] * y + h[8].
HomogeneousW(h, x, y) == RAdd(RAdd(RMul(h[7], x), RMul(h[8], y)), h[9])

\* transformPointSafe(h, x, y): no point for w < 1e-4, else the quotients
\* clamped by Math.max(-LIMIT, Math.min(LIMIT, r)).
transformPointSafe(h, x, y) ==
    LET px == RAdd(RAdd(RMul(h[1], x), RMul(h[2], y)), h[3])
        py == RAdd(RAdd(RMul(h[4], x), RMul(h[5], y)), h[6])
        w == HomogeneousW(h, x, y)
        limit == Num(SAFE_COORDINATE_LIMIT)
    IN  IF RLt(w, Rat(1, 10000)) THEN NoPoint
        ELSE [x |-> RMax(RNeg(limit), RMin(limit, RDiv(px, w))),
              y |-> RMax(RNeg(limit), RMin(limit, RDiv(py, w)))]

---------------------------------------------------------------------------
(* State.                                                                *)

VARIABLES
    state,          \* App's AppState: imageSrc, quad, mode, depth, zoomSpeed, direction,
                    \* desiredDirection, isExporting, exportProgress, constantSpeed
    initialQuad,    \* the point objects of the module constant INITIAL_QUAD
    quadAlias,      \* the corners whose point object in state.quad is INITIAL_QUAD's own
    appLoading,     \* sources whose Image in loadImage has not fired onload/onerror
    canvasLoading,  \* sources whose Image in DrosteCanvas has not fired onload
    nextSrc,        \* the next source the user uploads
    imageEl,        \* DrosteCanvas imageEl (NoImage: null)
    dragTarget,     \* DrosteCanvas dragTarget ("none": null)
    events,         \* uploads, toolbar clicks and pointer moves so far
    zoomLevelRef, lastTimeRef, isExportingRef, loopScaleRef,
    liveCanvas,     \* the frame the visible canvas shows, and the frame time it was drawn at
    alertShown,     \* the last message generateGif passed to alert()
    exp,            \* the generateGif run: its position, closure and encoder
    raf,            \* requestAnimationFrame: the pending callbacks of loop, and frameRef
    fn              \* input and result of the pure function under check

appVars == <<state, initialQuad, quadAlias, appLoading, canvasLoading, nextSrc,
             imageEl, dragTarget, events, zoomLevelRef, lastTimeRef, isExportingRef,
             loopScaleRef, liveCanvas, alertShown, exp, raf>>
vars == <<appVars, fn>>

---------------------------------------------------------------------------
(* Loop controller: the pure parts of renderCanvas, loop and generateGif.  *)

\* getQuadArea, term by term as written (the fourth product of both sums is
\* p4.y * p1.x).
getQuadArea(p1, p2, p3, p4) ==
    LET plus == RAdd(RAdd(RMul(p1.x, p2.y), RMul(p2.x, p3.y)),
                     RAdd(RMul(p3.x, p4.y), RMul(p4.y, p1.x)))
        minus == RAdd(RAdd(RMul(p1.y, p2.x), RMul(p2.y, p3.x)),
                      RAdd(RMul(p3.y, p4.x), RMul(p4.y, p1.x)))
    IN  RMul(Rat(1, 2), RAbs(RSub(plus, minus)))

\* qPoints of renderCanvas: the quad in image pixels.
QPoints(quad, iw, ih) ==
    [c \in Corners |-> Pt(RMul(quad[c].x, Num(iw)), RMul(quad[c].y, Num(ih)))]

\* The loop scale renderCanvas stores in loopScaleRef.
LoopScale(quad, iw, ih) ==
    LET q == QPoints(quad, iw, ih)
        areaFull == Num(iw * ih)
        areaQuad == getQuadArea(q.p1, q.p2, q.p3, q.p4)
    IN  Sqrt(RDiv(areaFull, RMax(One, areaQuad)))

NoPhase == [n |-> 0, d |-> -1]     \* phaseOverride undefined

\* The phase renderCanvas interpolates the viewport with.
RenderPhase(scale, zoomLevel, phaseOverride) ==
    LET logS == Ln(scale)
        p == IF phaseOverride # NoPhase THEN phaseOverride
             ELSE IF RGt(logS, Rat(1, 10000))
                  THEN RDiv(Lg(RMax(One, zoomLevel)), Lg(scale))
                  ELSE Zero
    IN  RSub(p, RFloor(p))

\* One step of zoomLevelRef in loop, for a tick that passed the guard.
AdvanceZoom(zoomLevel, limit, speed, dt, direction, constantSpeed) ==
    IF constantSpeed
    THEN LET step == RMul(RMul(speed, dt), Rat(1, 2))
             delta == RMul(step, RSub(limit, One))
         IN  IF direction = DirIN
             THEN LET z == RAdd(zoomLevel, delta)
                  IN  IF RGe(z, limit) THEN RAdd(One, RSub(z, limit)) ELSE z
             ELSE LET z == RSub(zoomLevel, delta)
                  IN  IF RLt(z, One) THEN RSub(limit, RSub(One, z)) ELSE z
    ELSE LET step == RAdd(One, RMul(speed, dt))
         IN  IF direction = DirIN
             THEN LET z == RMul(zoomLevel, step)
                  IN  IF RGe(z, limit) THEN RDiv(z, limit) ELSE z
             ELSE LET z == RDiv(zoomLevel, step)
                  IN  IF RLt(z, One) THEN RMul(z, limit) ELSE z

\* A variant of the frame count without the minimum of 10 frames.
TotalFramesNoMinimum(scale, zoomSpeed, constantSpeed) ==
    LET speed == IF zoomSpeed = Zero \/ IsNaN(zoomSpeed) THEN One ELSE zoomSpeed
        raw == IF constantSpeed THEN RDiv(Num(2), speed)
               ELSE RDiv(Ln(RMax(Rat(11, 10), scale)), speed)
        duration == RMax(Rat(1, 5), RMin(raw, Num(10)))
    IN  RFloor(RMul(duration, Num(30))).n

\* generateGif step 4: the frame count of a run.
TotalFrames(scale, zoomSpeed, constantSpeed) ==
    LET speed == IF zoomSpeed = Zero \/ IsNaN(zoomSpeed) THEN One ELSE zoomSpeed
        raw == IF constantSpeed THEN RDiv(Num(2), speed)
               ELSE RDiv(Ln(RMax(Rat(11, 10), scale)), speed)
        duration == RMax(Rat(1, 5), RMin(raw, Num(10)))
        frames == RMax(Num(10), RFloor(RMul(duration, Num(30))))
    IN  frames.n

\* generateGif step 4: delay, the delay every frame is added with.
FrameDelay == RFloor(RDiv(Num(1000), Num(30))).n

\* generateGif step 5: the phase handed to renderCanvas for frame i.
ExportPhase(i, totalFrames, scale, constantSpeed, desiredDirection) ==
    LET t == Rat(i, totalFrames)
        Z == RAdd(One, RMul(RSub(scale, One), t))
        p == IF constantSpeed THEN RDiv(Lg(Z), Lg(scale)) ELSE t
    IN  IF desiredDirection = DirOUT THEN RSub(One, p) ELSE p

---------------------------------------------------------------------------
(* Initial state: App's useState, DrosteCanvas's refs and state.           *)

InitialState ==
    [imageSrc |-> NoImage, quad |-> CenteredQuad, mode |-> TRANSFORM,
     depth |-> 10, zoomSpeed |-> One, direction |-> DirSTOP,
     desiredDirection |-> DirIN, isExporting |-> FALSE,
     exportProgress |-> Zero, constantSpeed |-> FALSE]

\* No generateGif run: pc "idle".  A run holds the state and imageEl of the render
\* that started it (st, img), the corners whose point object it shares with
\* state.quad (alias) and with INITIAL_QUAD (initAlias), its locals, and the
\* phase renderCanvas drew its last frame with (p).  frames is what the encoder
\* holds: for every addFrame call the index i of the frame, the phase the
\* canvas was rendered with and the delay passed with it.  params is what the
\* run was started with, and prev the frame count and the phases of the last
\* run before it that the encoder finished.
RunParams(st, img) ==
    [quad |-> st.quad, iw |-> ImageWidth(img), ih |-> ImageHeight(img),
     depth |-> st.depth, zoomSpeed |-> st.zoomSpeed,
     desiredDirection |-> st.desiredDirection, constantSpeed |-> st.constantSpeed]

NoRun == [total |-> 0]

IdleExport ==
    [pc |-> "idle", st |-> InitialState, img |-> NoImage, alias |-> {},
     initAlias |-> {}, scale |-> Zero, total |-> 0, i |-> 0, added |-> 0,
     p |-> Zero, frames |-> << >>, params |-> RunParams(InitialState, NoImage),
     prev |-> NoRun]

\* exp after a run that ended before the encoder finished.
Ended(e) == [IdleExport EXCEPT !.prev = e.prev]

\* exp after the encoder finished run e.
Finished(e) ==
    [IdleExport EXCEPT !.prev = [params |-> e.params, total |-> e.total,
                                 phases |-> [k \in 1..Len(e.frames) |-> e.frames[k].p]]]

BlankCanvas == [img |-> NoImage, quad |-> CenteredQuad, p |-> Zero, t |-> 0]

NoCall == [f |-> "none"]

InitApp ==
    /\ state = InitialState
    /\ initialQuad = CenteredQuad
    /\ quadAlias = Corners
    /\ appLoading = {}
    /\ canvasLoading = {}
    /\ nextSrc = 1
    /\ imageEl = NoImage
    /\ dragTarget = "none"
    /\ events = 0
    /\ zoomLevelRef = One
    /\ lastTimeRef = 0
    /\ isExportingRef = FALSE
    /\ loopScaleRef = One
    /\ liveCanvas = BlankCanvas
    /\ alertShown = "none"
    /\ exp = IdleExport
    /\ raf = [pending |-> {0}, frameRef |-> 0]

\* The values whose change re-runs the animation-loop effect: its dependency
\* list, with the dependencies of renderCanvas for renderCanvas.
EffectDeps ==
    <<state.direction, state.zoomSpeed, state.constantSpeed, state.quad, imageEl,
      state.depth, state.mode, state.imageSrc>>

\* requestAnimationFrame(loop): a new handle joins the pending callbacks and
\* is stored in frameRef.
Request(r) ==
    LET id == CHOOSE i \in 0..Cardinality(r.pending) : i \notin r.pending
    IN  [pending |-> r.pending \cup {id}, frameRef |-> id]

\* The browser calls the pending callback id.
Called(r, id) == [r EXCEPT !.pending = @ \ {id}]

\* The effect's cleanup: cancelAnimationFrame(frameRef.current).
Cancel(r) == [r EXCEPT !.pending = @ \ {r.frameRef}]

\* A variant of the effect whose cleanup cancels nothing.
LoopEffectNoCancel ==
    raf' = IF EffectDeps' # EffectDeps THEN Request(raf) ELSE raf

\* The animation-loop effect after a handler: when a dependency has changed,
\* the cleanup of the previous run and then the new run.
LoopEffect ==
    raf' = IF EffectDeps' # EffectDeps THEN Request(Cancel(raf)) ELSE raf

Init == InitApp /\ fn = NoCall

---------------------------------------------------------------------------
(* Image loading: App.loadImage and DrosteCanvas's load-image effect.      *)

\* A counted user event.
UserEvent == events < MaxEvents /\ events' = events + 1

\* The user picks a file; loadImage creates an Image and sets its src.
UploadImage ==
    /\ UserEvent
    /\ appLoading' = appLoading \cup {nextSrc}
    /\ nextSrc' = nextSrc + 1
    /\ UNCHANGED <<state, initialQuad, quadAlias, canvasLoading, imageEl, dragTarget,
                   zoomLevelRef, lastTimeRef, isExportingRef, loopScaleRef,
                   liveCanvas, alertShown, exp, fn>>
    /\ LoopEffect

\* img.onload of loadImage, and the load-image effect the new imageSrc runs.
AppImageLoaded(src) ==
    /\ src \in appLoading
    /\ appLoading' = appLoading \ {src}
    /\ state' = [state EXCEPT !.imageSrc = src, !.quad = initialQuad,
                              !.direction = DirSTOP]
    /\ quadAlias' = Corners
    /\ canvasLoading' = IF src # state.imageSrc THEN canvasLoading \cup {src}
                        ELSE canvasLoading
    /\ UNCHANGED <<initialQuad, nextSrc, imageEl, dragTarget, events, zoomLevelRef,
                   lastTimeRef, isExportingRef, loopScaleRef, liveCanvas, alertShown, exp, fn>>
    /\ LoopEffect

\* img.onload of the load-image effect.
CanvasImageLoaded(src) ==
    /\ src \in canvasLoading
    /\ canvasLoading' = canvasLoading \ {src}
    /\ imageEl' = src
    /\ zoomLevelRef' = One
    /\ UNCHANGED <<state, initialQuad, quadAlias, appLoading, nextSrc, dragTarget,
                   events, lastTimeRef, isExportingRef, loopScaleRef, liveCanvas, alertShown,
                   exp, fn>>
    /\ LoopEffect

---------------------------------------------------------------------------
(* Toolbar and sidebar handlers of App.                                    *)

\* What a toolbar handler leaves alone, and the effect its new state runs.
canvasUnchanged ==
    /\ UNCHANGED <<initialQuad, quadAlias, appLoading, canvasLoading, nextSrc, imageEl,
                   dragTarget, zoomLevelRef, lastTimeRef, isExportingRef,
                   loopScaleRef, liveCanvas, alertShown, exp, fn>>
    /\ LoopEffect

togglePlay ==
    /\ UserEvent
    /\ state.imageSrc # NoImage                   \* the button is disabled otherwise
    /\ state' = [state EXCEPT !.direction =
                     IF state.direction = DirSTOP THEN state.desiredDirection
                     ELSE DirSTOP]
    /\ canvasUnchanged

\* A variant that makes the new preference the direction even when stopped.
toggleDirectionPreferenceStarts ==
    /\ UserEvent
    /\ LET newDir == IF state.desiredDirection = DirIN THEN DirOUT ELSE DirIN
       IN  state' = [state EXCEPT !.desiredDirection = newDir,
                                  !.direction = newDir]
    /\ canvasUnchanged

toggleDirectionPreference ==
    /\ UserEvent
    /\ LET newDir == IF state.desiredDirection = DirIN THEN DirOUT ELSE DirIN
           activeDir == IF state.direction # DirSTOP THEN newDir ELSE DirSTOP
       IN  state' = [state EXCEPT !.desiredDirection = newDir,
                                  !.direction = activeDir]
    /\ canvasUnchanged

toggleConstantSpeed ==
    /\ UserEvent
    /\ state' = [state EXCEPT !.constantSpeed = ~state.constantSpeed]
    /\ canvasUnchanged

setMode(m) ==
    /\ UserEvent
    /\ m # state.mode
    /\ state' = [state EXCEPT !.mode = m]
    /\ canvasUnchanged

setZoomSpeed(v) ==
    /\ UserEvent
    /\ v # state.zoomSpeed
    /\ state' = [state EXCEPT !.zoomSpeed = v]
    /\ canvasUnchanged

---------------------------------------------------------------------------
(* The animation loop (the requestAnimationFrame callback loop).           *)

\* A variant of the zoom update's guard that does not read isExportingRef.
TickAdvancesUnguarded(direction, exporting, img) ==
    direction # DirSTOP /\ img # NoImage

\* A variant of the guard of loop's zoom update without the test of the
\* direction.
TickAdvancesWhileStopped(direction, exporting, img) ==
    ~exporting /\ img # NoImage

\* The guard of loop's zoom update and the guard of its renderCanvas call.
TickAdvances(direction, exporting, img) ==
    direction # DirSTOP /\ ~exporting /\ img # NoImage

TickRenders(exporting, img) ==
    ~exporting /\ img # NoImage /\ ImageWidth(img) # 0 /\ ImageHeight(img) # 0

Tick(time) ==
    /\ time > lastTimeRef
    /\ LET last == IF lastTimeRef = 0 THEN time ELSE lastTimeRef
           dt == Rat(time - last, 1000)
           zoom == IF TickAdvances(state.direction, isExportingRef, imageEl)
                   THEN AdvanceZoom(zoomLevelRef, loopScaleRef, state.zoomSpeed, dt,
                                    state.direction, state.constantSpeed)
                   ELSE zoomLevelRef
           renders == TickRenders(isExportingRef, imageEl)
           scale == LoopScale(state.quad, ImageWidth(imageEl), ImageHeight(imageEl))
       IN  /\ lastTimeRef' = time
           /\ zoomLevelRef' = zoom
           /\ loopScaleRef' = IF renders THEN scale ELSE loopScaleRef
           /\ liveCanvas' = IF renders
                            THEN [img |-> imageEl, quad |-> state.quad,
                                  p |-> RenderPhase(scale, zoom, NoPhase), t |-> time]
                            ELSE liveCanvas
    /\ UNCHANGED <<state, initialQuad, quadAlias, appLoading, canvasLoading, nextSrc,
                   imageEl, dragTarget, events, isExportingRef, alertShown, exp,
                   fn>>
    /\ \E id \in raf.pending : raf' = Request(Called(raf, id))

---------------------------------------------------------------------------
(* Export: the GIF button, the export trigger effect and generateGif.      *)

\* onExportFinish as App passes it.
onExportFinish(s) == [s EXCEPT !.isExporting = FALSE, !.exportProgress = Zero]

\* The GIF button's onClick, then the export trigger effect, then generateGif up
\* to its first await (initGifWorker).
ClickGif ==
    /\ UserEvent
    /\ state.imageSrc # NoImage /\ ~state.isExporting     \* disabled otherwise
    /\ state' = [state EXCEPT !.isExporting = TRUE]
    /\ IF ~isExportingRef /\ imageEl # NoImage
       THEN /\ isExportingRef' = TRUE
            /\ exp' = [IdleExport EXCEPT !.pc = "init", !.st = state', !.img = imageEl,
                                         !.alias = Corners, !.initAlias = quadAlias,
                                         !.params = RunParams(state', imageEl),
                                         !.prev = exp.prev]
       ELSE UNCHANGED <<isExportingRef, exp>>
    /\ UNCHANGED <<initialQuad, quadAlias, appLoading, canvasLoading, nextSrc, imageEl,
                   dragTarget, zoomLevelRef, lastTimeRef, loopScaleRef,
                   liveCanvas, alertShown, fn>>
    /\ LoopEffect

\* A variant of the catch of step 2 that leaves isExportingRef set.
ExportInitFailKeepsFlag ==
    /\ exp.pc = "init"
    /\ alertShown' = "Could not load GIF exporter. Please try again."
    /\ state' = onExportFinish(state)
    /\ exp' = Ended(exp)
    /\ UNCHANGED <<initialQuad, quadAlias, appLoading, canvasLoading, nextSrc, imageEl,
                   dragTarget, events, zoomLevelRef, lastTimeRef, isExportingRef,
                   loopScaleRef, liveCanvas, fn>>
    /\ LoopEffect

\* initGifWorker rejects: the catch of step 2.
ExportInitFail ==
    /\ exp.pc = "init"
    /\ alertShown' = "Could not load GIF exporter. Please try again."
    /\ isExportingRef' = FALSE
    /\ state' = onExportFinish(state)
    /\ exp' = Ended(exp)
    /\ UNCHANGED <<initialQuad, quadAlias, appLoading, canvasLoading, nextSrc, imageEl,
                   dragTarget, events, zoomLevelRef, lastTimeRef, loopScaleRef,
                   liveCanvas, fn>>
    /\ LoopEffect

\* initGifWorker resolves and getContext('2d') returns null: generateGif returns.
ExportNoContext ==
    /\ exp.pc = "init"
    /\ exp' = Ended(exp)
    /\ UNCHANGED <<state, initialQuad, quadAlias, appLoading, canvasLoading, nextSrc,
                   imageEl, dragTarget, events, zoomLevelRef, lastTimeRef,
                   isExportingRef, loopScaleRef, liveCanvas, alertShown, fn>>
    /\ LoopEffect

\* The phase of frame i of run e: generateGif's p, after renderCanvas has taken
\* its fractional part.
FramePhase(e, scale, total, i) ==
    RenderPhase(LoopScale(e.st.quad, ImageWidth(e.img), ImageHeight(e.img)), One,
                ExportPhase(i, total, scale, e.st.constantSpeed,
                            e.st.desiredDirection))

\* A variant of the frame loop's body that stores the frame's zoom value
\* Z = 1 + (scale - 1) * i / total in zoomLevelRef.
FrameStepDrivesZoom(e, scale, total, i, ok) ==
    /\ loopScaleRef' = LoopScale(e.st.quad, ImageWidth(e.img), ImageHeight(e.img))
    /\ zoomLevelRef' = RAdd(One, RMul(RSub(scale, One), Rat(i, total)))
    /\ IF ok
       THEN /\ exp' = [e EXCEPT !.pc = "frames", !.scale = scale, !.total = total,
                                !.i = i + 1, !.added = e.added + 1,
                                !.p = FramePhase(e, scale, total, i),
                                !.frames = Append(e.frames,
                                    [i |-> i, p |-> FramePhase(e, scale, total, i),
                                     delay |-> FrameDelay])]
            /\ state' = [state EXCEPT !.exportProgress = Rat(i + 1, total)]
            /\ UNCHANGED <<isExportingRef, alertShown>>
       ELSE /\ alertShown' = "Error during GIF rendering."
            /\ exp' = Ended(e)
            /\ state' = onExportFinish(state)
            /\ isExportingRef' = FALSE
    /\ UNCHANGED <<initialQuad, quadAlias, appLoading, canvasLoading, nextSrc, imageEl,
                   dragTarget, events, lastTimeRef, liveCanvas, fn>>
    /\ LoopEffect

\* One pass of the frame loop's body for frame i of run e with loop scale `scale`:
\* renderCanvas(ctx, true, p) writes loopScaleRef; then gif.addFrame succeeds (ok)
\* or throws into the catch of step 5.
FrameStep(e, scale, total, i, ok) ==
    /\ loopScaleRef' = LoopScale(e.st.quad, ImageWidth(e.img), ImageHeight(e.img))
    /\ IF ok
       THEN /\ exp' = [e EXCEPT !.pc = "frames", !.scale = scale, !.total = total,
                                !.i = i + 1, !.added = e.added + 1,
                                !.p = FramePhase(e, scale, total, i),
                                !.frames = Append(e.frames,
                                    [i |-> i, p |-> FramePhase(e, scale, total, i),
                                     delay |-> FrameDelay])]
            /\ state' = [state EXCEPT !.exportProgress = Rat(i + 1, total)]
            /\ UNCHANGED <<isExportingRef, alertShown>>
       ELSE /\ alertShown' = "Error during GIF rendering."
            /\ exp' = Ended(e)
            /\ state' = onExportFinish(state)
            /\ isExportingRef' = FALSE
    /\ UNCHANGED <<initialQuad, quadAlias, appLoading, canvasLoading, nextSrc, imageEl,
                   dragTarget, events, zoomLevelRef, lastTimeRef, liveCanvas, fn>>
    /\ LoopEffect

\* initGifWorker resolves, the context exists: steps 3 and 4 and frame 0, for
\* a run of at most `limit` frames.
ExportStartWithin(limit, ok) ==
    /\ exp.pc = "init"
    /\ LET scale == loopScaleRef
           total == TotalFrames(scale, exp.st.zoomSpeed, exp.st.constantSpeed)
       IN  total <= limit /\ FrameStep(exp, scale, total, 0, ok)

ExportStart(ok) == ExportStartWithin(MaxFrames, ok)

\* The timeout after a frame fires and the loop goes on to frame i.
ExportFrame(ok) ==
    /\ exp.pc = "frames" /\ exp.i < exp.total
    /\ FrameStep(exp, exp.scale, exp.total, exp.i, ok)

\* A variant of step 6 that asks the encoder to render while frames are still
\* to be added.
ExportRenderEarly ==
    /\ exp.pc = "frames"
    /\ state' = [state EXCEPT !.exportProgress = One]
    /\ exp' = [exp EXCEPT !.pc = "encoding"]
    /\ UNCHANGED <<initialQuad, quadAlias, appLoading, canvasLoading, nextSrc, imageEl,
                   dragTarget, events, zoomLevelRef, lastTimeRef, isExportingRef,
                   loopScaleRef, liveCanvas, alertShown, fn>>
    /\ LoopEffect

\* A variant of step 6 that clears isExportingRef and calls onExportFinish
\* when it asks the encoder to render, before the encoder has finished.
ExportRenderClearsFlag ==
    /\ exp.pc = "frames" /\ exp.i >= exp.total
    /\ isExportingRef' = FALSE
    /\ state' = onExportFinish(state)
    /\ exp' = [exp EXCEPT !.pc = "encoding"]
    /\ UNCHANGED <<initialQuad, quadAlias, appLoading, canvasLoading, nextSrc, imageEl,
                   dragTarget, events, zoomLevelRef, lastTimeRef,
                   loopScaleRef, liveCanvas, alertShown, fn>>
    /\ LoopEffect

\* The timeout after the last frame fires: setExportProgress(1.0), gif.on and
\* gif.render of step 6.
ExportRender ==
    /\ exp.pc = "frames" /\ exp.i >= exp.total
    /\ state' = [state EXCEPT !.exportProgress = One]
    /\ exp' = [exp EXCEPT !.pc = "encoding"]
    /\ UNCHANGED <<initialQuad, quadAlias, appLoading, canvasLoading, nextSrc, imageEl,
                   dragTarget, events, zoomLevelRef, lastTimeRef, isExportingRef,
                   loopScaleRef, liveCanvas, alertShown, fn>>
    /\ LoopEffect

\* The encoder's 'finished' event.
EncoderFinished ==
    /\ exp.pc = "encoding"
    /\ isExportingRef' = FALSE
    /\ state' = onExportFinish(state)
    /\ exp' = Finished(exp)
    /\ UNCHANGED <<initialQuad, quadAlias, appLoading, canvasLoading, nextSrc, imageEl,
                   dragTarget, events, zoomLevelRef, lastTimeRef, loopScaleRef,
                   liveCanvas, alertShown, fn>>
    /\ LoopEffect

---------------------------------------------------------------------------
(* Drag editing: handlePointerDown, handlePointerMove, handlePointerUp.    *)
(* The pointer lands on a corner handle or inside the quad; the rotate     *)
(* handle and the scale drag of TRANSFORM mode (atan2, hypot) are not      *)
(* among the inputs.                                                       *)

DragTargets(mode) == IF mode = CORNER THEN {"p3", "move"} ELSE {"move"}

\* The bounding-box test that ends handlePointerDown.
HasInterior(q) ==
    /\ RLt(RMin(q.p1.x, q.p4.x), RMax(q.p2.x, q.p3.x))
    /\ RLt(RMin(q.p1.y, q.p2.y), RMax(q.p3.y, q.p4.y))

handlePointerDown(target) ==
    /\ state.direction = DirSTOP
    /\ imageEl # NoImage
    /\ target \in DragTargets(state.mode)
    /\ target = "move" => HasInterior(state.quad)
    /\ dragTarget' = target
    /\ UNCHANGED <<state, initialQuad, quadAlias, appLoading, canvasLoading, nextSrc,
                   imageEl, events, zoomLevelRef, lastTimeRef, isExportingRef,
                   loopScaleRef, liveCanvas, alertShown, exp, fn>>
    /\ LoopEffect

Translate(q, dx, dy) ==
    [c \in Corners |-> Pt(RAdd(q[c].x, dx), RAdd(q[c].y, dy))]

\* newQuad of handlePointerMove for pointer position pos.
MovedQuad(q, mode, target, pos) ==
    IF mode = CORNER
    THEN IF target \in Corners THEN [q EXCEPT ![target] = pos]
         ELSE LET sx == RAdd(RAdd(q.p1.x, q.p2.x), RAdd(q.p3.x, q.p4.x))
                  sy == RAdd(RAdd(q.p1.y, q.p2.y), RAdd(q.p3.y, q.p4.y))
              IN  Translate(q, RSub(pos.x, RDiv(sx, Num(4))),
                               RSub(pos.y, RDiv(sy, Num(4))))
    ELSE LET cx == RDiv(RAdd(q.p1.x, q.p3.x), Num(2))
             cy == RDiv(RAdd(q.p1.y, q.p3.y), Num(2))
         IN  Translate(q, RSub(pos.x, cx), RSub(pos.y, cy))

\* The corners of state.quad whose point object handlePointerMove writes in
\* place (newQuad is a shallow copy: CORNER mode's move does p.x += dx), and
\* those it replaces by a new object.
MutatedInPlace(mode, target) ==
    IF mode = CORNER /\ target = "move" THEN Corners ELSE {}

Replaced(mode, target) ==
    IF mode = CORNER THEN (IF target \in Corners THEN {target} ELSE {})
    ELSE Corners

handlePointerMove(pos) ==
    /\ UserEvent
    /\ dragTarget # "none" /\ imageEl # NoImage
    /\ dragTarget \in DragTargets(state.mode)
    /\ LET newQuad == MovedQuad(state.quad, state.mode, dragTarget, pos)
           inPlace == MutatedInPlace(state.mode, dragTarget)
           fresh == Replaced(state.mode, dragTarget)
       IN  /\ state' = [state EXCEPT !.quad = newQuad]
           /\ initialQuad' = [c \in Corners |->
                                 IF c \in inPlace \cap quadAlias THEN newQuad[c]
                                 ELSE initialQuad[c]]
           /\ quadAlias' = quadAlias \ fresh
           /\ exp' = IF exp.pc = "idle" THEN exp
                     ELSE [exp EXCEPT
                              !.st.quad = [c \in Corners |->
                                              IF c \in inPlace \cap exp.alias
                                              THEN newQuad[c] ELSE exp.st.quad[c]],
                              !.alias = exp.alias \ fresh]
    /\ UNCHANGED <<appLoading, canvasLoading, nextSrc, imageEl, dragTarget,
                   zoomLevelRef, lastTimeRef, isExportingRef, loopScaleRef,
                   liveCanvas, alertShown, fn>>
    /\ LoopEffect

handlePointerUp ==
    /\ dragTarget # "none"
    /\ dragTarget' = "none"
    /\ UNCHANGED <<state, initialQuad, quadAlias, appLoading, canvasLoading, nextSrc,
                   imageEl, events, zoomLevelRef, lastTimeRef, isExportingRef,
                   loopScaleRef, liveCanvas, alertShown, exp, fn>>
    /\ LoopEffect

---------------------------------------------------------------------------
(* The application: every handler, callback and continuation.              *)

Next ==
    \/ UploadImage
    \/ \E src \in Sources : AppImageLoaded(src)
    \/ \E src \in Sources : CanvasImageLoaded(src)
    \/ togglePlay
    \/ toggleDirectionPreference
    \/ toggleConstantSpeed
    \/ \E m \in {TRANSFORM, CORNER} : setMode(m)
    \/ \E v \in Speeds : setZoomSpeed(v)
    \/ \E time \in FrameTimes : Tick(time)
    \/ ClickGif
    \/ ExportInitFail
    \/ ExportNoContext
    \/ \E ok \in BOOLEAN : ExportStart(ok)
    \/ \E ok \in BOOLEAN : ExportFrame(ok)
    \/ ExportRender
    \/ EncoderFinished
    \/ \E target \in {"p3", "move"} : handlePointerDown(target)
    \/ \E pos \in PointerPositions : handlePointerMove(pos)
    \/ handlePointerUp

Spec == Init /\ [][Next]_vars

---------------------------------------------------------------------------
(* computeHomography and solveLinearSystem applied to inputs of a bounded  *)
(* set: source sizes 0 .. MaxSize and quads whose corners are the corners  *)
(* of a square of side 1 .. MaxSide, each one in place, collapsed onto the *)
(* origin, pushed outward (a perspective quad) or not finite.              *)

MaxSize == 2
MaxSide == 1

Sizes == {Num(k) : k \in 0..MaxSize}
CornerChoices == {"corner", "origin", "out", "nan", "inf"}

SquareCorner(c, side) ==
    CASE c = "p1" -> Pt(Zero, Zero)
      [] c = "p2" -> Pt(Num(side), Zero)
      [] c = "p3" -> Pt(Num(side), Num(side))
      [] c = "p4" -> Pt(Zero, Num(side))

ChosenCorner(c, side, choice) ==
    CASE choice = "corner" -> SquareCorner(c, side)
      [] choice = "origin" -> Pt(Zero, Zero)
      [] choice = "out" -> Pt(RAdd(SquareCorner(c, side).x, One),
                              RAdd(SquareCorner(c, side).y, One))
      [] choice = "nan" -> Pt(NaN, SquareCorner(c, side).y)
      [] choice = "inf" -> Pt(SquareCorner(c, side).x, PosInf)

DstQuads ==
    {[c \in Corners |-> ChosenCorner(c, side, choice[c])] :
        side \in 1..MaxSide, choice \in [Corners -> CornerChoices]}

HomographyInputs ==
    {[f |-> "input", srcWidth |-> w, srcHeight |-> h, dst |-> q] :
        w \in Sizes, h \in Sizes, q \in DstQuads}

InitHomography == InitApp /\ fn \in HomographyInputs

CallComputeHomography ==
    /\ fn.f = "input"
    /\ fn' = [fn EXCEPT !.f = "computeHomography"] @@
             [out |-> computeHomography(fn.srcWidth, fn.srcHeight, fn.dst)]
    /\ UNCHANGED appVars

CallSolveLinearSystem ==
    /\ fn.f = "input"
    /\ fn' = [fn EXCEPT !.f = "solveLinearSystem"] @@
             [out |-> solveLinearSystem(SystemA(fn.srcWidth, fn.srcHeight, fn.dst),
                                        SystemB(fn.srcWidth, fn.srcHeight, fn.dst))]
    /\ UNCHANGED appVars

NextHomography == CallComputeHomography \/ CallSolveLinearSystem

SpecHomography == InitHomography /\ [][NextHomography]_vars

---------------------------------------------------------------------------
(* computeHomography and solveLinearSystem applied to a w x h source and   *)
(* the rectangle (0,0), (w,0), (w,h), (0,h), for sizes 1 .. MaxRect, one   *)
(* half and 1e-12.                                                         *)

MaxRect == 8

TinySize == [n |-> 1, d |-> 1, e |-> 2]

RectSizes == {Num(k) : k \in 1..MaxRect} \cup {Rat(1, 2), TinySize}

RectQuad(w, h) ==
    [p1 |-> Pt(Zero, Zero), p2 |-> Pt(w, Zero), p3 |-> Pt(w, h), p4 |-> Pt(Zero, h)]

RectInputs ==
    {[f |-> "input", srcWidth |-> w, srcHeight |-> h, dst |-> RectQuad(w, h)] :
        w \in RectSizes, h \in RectSizes}

InitRect == InitApp /\ fn \in RectInputs

SpecRect == InitRect /\ [][NextHomography]_vars

---------------------------------------------------------------------------
(* invertMatrix and multiplyMatrix applied to the 3x3 matrices with integer *)
(* entries -1 .. MaxEntry, and to the identity with one entry made NaN or   *)
(* Infinity.                                                                *)

MaxEntry == 1

EntryValues == {Num(k) : k \in (-1)..MaxEntry}

NonFiniteMatrices ==
    {[i \in 1..9 |-> IF i = k THEN v ELSE Identity[i]] :
        k \in 1..9, v \in {NaN, PosInf}}

MatrixInputs ==
    {[f |-> "matrix", m |-> m] : m \in [1..9 -> EntryValues] \cup NonFiniteMatrices}

\* The matrix that, multiplied from the right, adds column 1 to column 2.
Shear == <<One, One, Zero, Zero, One, Zero, Zero, Zero, One>>

InitMatrix == InitApp /\ fn \in MatrixInputs

CallInvertMatrix ==
    /\ fn.f = "matrix"
    /\ fn' = [f |-> "invertMatrix", m |-> fn.m, out |-> invertMatrix(fn.m)]
    /\ UNCHANGED appVars

\* multiplyMatrix(invertMatrix(m), m), and multiplyMatrix(m, Shear).
CallMultiplyMatrix ==
    /\ \/ /\ fn.f = "invertMatrix"
          /\ fn' = [f |-> "multiplyMatrix", of |-> "inverse", m |-> fn.m,
                    a |-> fn.out, b |-> fn.m,
                    out |-> multiplyMatrix(fn.out, fn.m)]
       \/ /\ fn.f = "matrix"
          /\ fn' = [f |-> "multiplyMatrix", of |-> "shear", m |-> fn.m,
                    a |-> fn.m, b |-> Shear,
                    out |-> multiplyMatrix(fn.m, Shear)]
    /\ UNCHANGED appVars

NextMatrix == CallInvertMatrix \/ CallMultiplyMatrix

SpecMatrix == InitMatrix /\ [][NextMatrix]_vars

---------------------------------------------------------------------------
(* getQuadArea and the loop scale of renderCanvas applied to an image and  *)
(* two quads A and B: A with its corners on the grid of MaxGrid steps per  *)
(* side (whole pixels of the 8-pixel images), B the initial quad, moved or *)
(* shrunk below one pixel; and the 800 x 600 image with the initial quad.  *)

MaxGrid == 2

GridPoints == {Pt(Rat(i, MaxGrid), Rat(j, MaxGrid)) : i \in 0..MaxGrid, j \in 0..MaxGrid}

\* The rectangle with corner (x, y) and sides a and b, corners in the order
\* of Quad: top-left, top-right, bottom-right, bottom-left.
Rectangle(x, y, a, b) ==
    [p1 |-> Pt(x, y), p2 |-> Pt(RAdd(x, a), y),
     p3 |-> Pt(RAdd(x, a), RAdd(y, b)), p4 |-> Pt(x, RAdd(y, b))]

ReferenceQuads ==
    {CenteredQuad,
     Rectangle(Zero, Rat(1, 4), Rat(1, 2), Rat(1, 2)),
     Rectangle(Rat(1, 2), Rat(1, 2), Rat(1, 2), Rat(1, 2)),
     Rectangle(Zero, Zero, Rat(1, 16), Rat(1, 16)),
     Rectangle(Rat(1, 4), Rat(1, 4), Rat(1, 32), Rat(1, 16))}

ImageSizes == {<<ImageWidth(src), ImageHeight(src)>> : src \in 1..2}

LoopScaleInputs ==
    {[f |-> "input", iw |-> wh[1], ih |-> wh[2], A |-> A, B |-> B] :
        wh \in ImageSizes, A \in [Corners -> GridPoints], B \in ReferenceQuads}
    \cup {[f |-> "input", iw |-> 800, ih |-> 600, A |-> CenteredQuad, B |-> B] :
            B \in ReferenceQuads}

InitLoopScale == InitApp /\ fn \in LoopScaleInputs

CallGetQuadArea ==
    /\ fn.f = "input"
    /\ LET q == QPoints(fn.A, fn.iw, fn.ih)
       IN  fn' = [fn EXCEPT !.f = "getQuadArea"] @@
                 [out |-> getQuadArea(q.p1, q.p2, q.p3, q.p4)]
    /\ UNCHANGED appVars

\* The scale renderCanvas computes for quad A, and for quad B.
CallLoopScale ==
    /\ fn.f = "input"
    /\ fn' = [fn EXCEPT !.f = "renderCanvas"] @@
             [out |-> <<LoopScale(fn.A, fn.iw, fn.ih), LoopScale(fn.B, fn.iw, fn.ih)>>]
    /\ UNCHANGED appVars

NextLoopScale == CallGetQuadArea \/ CallLoopScale

SpecLoopScale == InitLoopScale /\ [][NextLoopScale]_vars

---------------------------------------------------------------------------
(* transformPointSafe on the layer matrices of renderCanvas: layerMatrix =  *)
(* multiplyMatrix(K, currentH) at the corners and grid points of an image   *)
(* of GridImage x GridImage pixels.  K and currentH are products and        *)
(* inverses of homographies: the identity, a scaling, a perspective whose   *)
(* w crosses zero inside the image, a reflection of w, w at and below the   *)
(* threshold, and matrices with an entry or a quotient that has overflowed  *)
(* to Infinity.                                                             *)

GridImage == 8

LayerFactors ==
    { Identity,
      <<Num(10000), Zero, Zero, Zero, Num(10000), Zero, Zero, Zero, One>>,
      <<One, Zero, Zero, Zero, One, Zero, Rat(-1, 8), Zero, One>>,
      <<One, Zero, Zero, Zero, One, Zero, Zero, Zero, Num(-1)>>,
      <<One, Zero, Zero, Zero, One, Zero, Zero, Zero, Rat(1, 10000)>>,
      <<One, Zero, Zero, Zero, One, Zero, Zero, Zero, Rat(1, 100000)>>,
      <<PosInf, Zero, Zero, Zero, One, Zero, Zero, Zero, One>>,
      <<One, Zero, Zero, Zero, One, Zero, Zero, Zero, PosInf>> }

CurrentLayers ==
    { Identity,
      <<Rat(1, 2), Zero, Num(2), Zero, Rat(1, 2), Num(2), Zero, Zero, One>>,
      <<One, Zero, Zero, Zero, One, Zero, Zero, Zero, Num(2)>> }

GridCoordinates == {Num(0), Num(GridImage \div 2), Num(GridImage)}

SafeInputs ==
    { [f |-> "input", K |-> K, currentH |-> c, x |-> x, y |-> y] :
        K \in LayerFactors, c \in CurrentLayers,
        x \in GridCoordinates, y \in GridCoordinates }

InitSafe == InitApp /\ fn \in SafeInputs

\* One transformPointSafe(layerMatrix, x, y) of the layer loop.
CallTransformPointSafe ==
    /\ fn.f = "input"
    /\ LET layerMatrix == multiplyMatrix(fn.K, fn.currentH)
       IN  fn' = [f |-> "transformPointSafe", h |-> layerMatrix, x |-> fn.x,
                  y |-> fn.y, w |-> HomogeneousW(layerMatrix, fn.x, fn.y),
                  out |-> transformPointSafe(layerMatrix, fn.x, fn.y)]
    /\ UNCHANGED appVars

NextSafe == CallTransformPointSafe

SpecSafe == InitSafe /\ [][NextSafe]_vars

---------------------------------------------------------------------------
(* getMatrixPower2x2 at t = 0 and t = 1 on the 2x2 matrices with entries    *)
(* -1 .. MaxPowerEntry (all three eigenvalue regimes, singular and zero     *)
(* matrices included) and on the matrices (0, b, c, 0) with b in {0, 1e-5}  *)
(* and c in {0, -1e-5}, whose discriminant 4bc is -4e-10 or 0.             *)

MaxPowerEntry == 2

PowerEntries == {Num(k) : k \in (-1)..MaxPowerEntry}

\* 1e-5.
TinyEntry == [n |-> 10, d |-> 1, e |-> 1]

PowerInputs ==
    { [f |-> "input", a |-> a, b |-> b, c |-> c, d |-> d, t |-> t] :
        a \in PowerEntries, b \in PowerEntries, c \in PowerEntries,
        d \in PowerEntries, t \in {Zero, One} }
    \cup
    { [f |-> "input", a |-> Zero, b |-> b, c |-> c, d |-> Zero, t |-> t] :
        b \in {Zero, TinyEntry}, c \in {Zero, RNeg(TinyEntry)}, t \in {Zero, One} }

InitPower == InitApp /\ fn \in PowerInputs

CallGetMatrixPower2x2 ==
    /\ fn.f = "input"
    /\ fn' = [fn EXCEPT !.f = "getMatrixPower2x2"] @@
             [branch |-> PowerBranch(fn.a, fn.b, fn.c, fn.d),
              out |-> getMatrixPower2x2(fn.a, fn.b, fn.c, fn.d, fn.t)]
    /\ UNCHANGED appVars

NextPower == CallGetMatrixPower2x2

SpecPower == InitPower /\ [][NextPower]_vars

---------------------------------------------------------------------------
(* Export runs of up to MaxRunFrames frames.  The initial states are states *)
(* of the application with image 1 loaded, after one upload and after the  *)
(* sidebar and the drag handles set speed, mode of speed, direction and    *)
(* quad, before the first animation frame has rendered or after it.  From  *)
(* there: the GIF button, the steps of generateGif and animation frames.   *)

MaxRunFrames == 300

RunSpeeds == {Rat(1, 10), One, Num(5)}

RunQuads ==
    {CenteredQuad,
     Rectangle(Zero, Zero, One, One),
     Rectangle(Rat(1, 4), Rat(1, 4), Rat(1, 4), Rat(1, 4))}

InitRun ==
    /\ \E q \in RunQuads, v \in RunSpeeds, c \in BOOLEAN, d \in {DirIN, DirOUT},
          rendered \in BOOLEAN :
          LET scale == LoopScale(q, ImageWidth(1), ImageHeight(1))
          IN  /\ state = [InitialState EXCEPT !.imageSrc = 1, !.quad = q,
                                              !.zoomSpeed = v, !.constantSpeed = c,
                                              !.desiredDirection = d]
              /\ quadAlias = IF q = CenteredQuad THEN Corners ELSE {}
              /\ loopScaleRef = IF rendered THEN scale ELSE One
              /\ lastTimeRef = IF rendered THEN 500 ELSE 0
              /\ liveCanvas = IF rendered
                              THEN [img |-> 1, quad |-> q,
                                    p |-> RenderPhase(scale, One, NoPhase), t |-> 500]
                              ELSE BlankCanvas
    /\ initialQuad = CenteredQuad
    /\ appLoading = {}
    /\ canvasLoading = {}
    /\ nextSrc = 2
    /\ imageEl = 1
    /\ dragTarget = "none"
    /\ events = 1
    /\ zoomLevelRef = One
    /\ isExportingRef = FALSE
    /\ alertShown = "none"
    /\ exp = IdleExport
    /\ raf = [pending |-> {0}, frameRef |-> 0]
    /\ fn = NoCall

NextRun ==
    \/ ClickGif
    \/ ExportInitFail
    \/ ExportNoContext
    \/ \E ok \in BOOLEAN : ExportStartWithin(MaxRunFrames, ok)
    \/ \E ok \in BOOLEAN : ExportFrame(ok)
    \/ ExportRender
    \/ EncoderFinished
    \/ \E time \in FrameTimes : Tick(time)

SpecRun == InitRun /\ [][NextRun]_vars

\* The frame loop has a pass to run: its timeout is pending.
FramePending == exp.pc = "frames" /\ exp.i < exp.total

\* The runtime runs every continuation it has scheduled: a settled promise's
\* continuation, an expired timeout, a decoded image's onload, the encoder's
\* 'finished' event.  How initGifWorker and getContext turn out is not the
\* runtime's choice, so the three continuations of step 2 share one condition.
\* The condition on the frame loop is weak fairness of ExportFrame with its
\* enabling condition, FramePending, written out.
FairSpec ==
    /\ Spec
    /\ WF_vars(ExportInitFail \/ ExportNoContext \/ \E ok \in BOOLEAN : ExportStart(ok))
    /\ ([]<>(~FramePending) \/ []<><<\E ok \in BOOLEAN : ExportFrame(ok)>>_vars)
    /\ WF_vars(ExportRender)
    /\ WF_vars(EncoderFinished)
    /\ WF_vars(\E src \in Sources : AppImageLoaded(src))
    /\ WF_vars(\E src \in Sources : CanvasImageLoaded(src))

---------------------------------------------------------------------------
(* Properties of the loop controller and the export.                       *)

AnyTick == \E time \in FrameTimes : Tick(time)

\* A step of the export: the click that triggers it and generateGif's steps.
ExportStep ==
    \/ ClickGif
    \/ ExportInitFail
    \/ ExportNoContext
    \/ \E ok \in BOOLEAN : ExportStart(ok)
    \/ \E ok \in BOOLEAN : ExportFrame(ok)
    \/ ExportRender
    \/ EncoderFinished

RunInProgress == exp.pc # "idle"

\* p is a number of [0, 1).
InUnitInterval(p) == IsFinite(p) /\ RLe(Zero, p) /\ RLt(p, One)

\* C1: an animation tick that finds isExportingRef set changes neither
\* zoomLevelRef nor what the visible canvas shows; so only a tick that saw the
\* flag clear writes zoomLevelRef or draws.
C1_TickExcludedWhileExporting ==
    [][AnyTick /\ isExportingRef
         => zoomLevelRef' = zoomLevelRef /\ liveCanvas' = liveCanvas]_vars

\* A tick arrived during an export, with playback on and time elapsed since the
\* frame the canvas shows: it neither drew nor advanced the zoom.
C1_Witness ==
    /\ isExportingRef /\ RunInProgress
    /\ state.direction # DirSTOP
    /\ imageEl # NoImage /\ liveCanvas.img = imageEl
    /\ liveCanvas.t > 0 /\ liveCanvas.t < lastTimeRef

\* C2 as stated: from the start of a generateGif run to its end zoomLevelRef
\* keeps the value it had at the start.
C2_ZoomHeldThroughRun ==
    [][RunInProgress /\ RunInProgress' => zoomLevelRef' = zoomLevelRef]_vars

\* C2, amended: no step of the export writes zoomLevelRef, and while a run is in
\* progress the only change of zoomLevelRef is the reset to 1.0 by the onload
\* of a newly loaded image.
C2_ExportNeverWritesZoom ==
    [][/\ ExportStep => zoomLevelRef' = zoomLevelRef
       /\ RunInProgress /\ zoomLevelRef' # zoomLevelRef
            => zoomLevelRef' = One /\ \E src \in Sources : CanvasImageLoaded(src)]_vars

\* A run has added all its frames and zoomLevelRef still holds the value, other
\* than 1.0, that playback had given it.
C2_Witness ==
    /\ exp.pc = "encoding" /\ exp.added = exp.total
    /\ zoomLevelRef # One

\* C3: when initGifWorker rejects, the run has added no frame, isExportingRef
\* and state.isExporting are cleared, exportProgress is 0, and the guards of the
\* tick's zoom update and render depend on playback and the image only.
C3_InitFailureAborts ==
    [][ExportInitFail
         => /\ exp.added = 0 /\ exp'.pc = "idle" /\ exp'.added = 0
            /\ ~isExportingRef'
            /\ ~state'.isExporting /\ state'.exportProgress = Zero
            /\ TickAdvances(state'.direction, isExportingRef', imageEl')
                 <=> (state'.direction # DirSTOP /\ imageEl' # NoImage)
            /\ TickRenders(isExportingRef', imageEl') <=> imageEl' # NoImage]_vars

\* The encoder failed to initialise, the export is over, and playback is on
\* with the image on the canvas.
C3_Witness ==
    /\ alertShown = "Could not load GIF exporter. Please try again."
    /\ ~isExportingRef /\ ~state.isExporting /\ ~RunInProgress
    /\ state.direction # DirSTOP
    /\ imageEl # NoImage /\ liveCanvas.img = imageEl /\ liveCanvas.t = lastTimeRef

\* C4: every export that is triggered (state.isExporting set) is eventually
\* terminated (state.isExporting cleared by onExportFinish).
C4_EveryExportTerminates == state.isExporting ~> ~state.isExporting

\* C5: after a tick that advances the zoom, 1 <= zoomLevelRef < loopScaleRef.
C5_ZoomWithinLoop ==
    [][AnyTick /\ TickAdvances(state.direction, isExportingRef, imageEl)
         => RLe(One, zoomLevelRef') /\ RLt(zoomLevelRef', loopScaleRef')]_vars

\* C6: a pointer move that changes the quad leaves zoomLevelRef at 1.0.
C6_DragResetsZoom ==
    [][(\E pos \in PointerPositions : handlePointerMove(pos)) /\ state'.quad # state.quad
         => zoomLevelRef' = One]_vars

\* C7: loading an image sets the quad to the initial centered quad and the
\* direction to STOP (loadImage's onload) and zoomLevelRef to 1.0 (the canvas
\* image's onload).
C7_LoadResets ==
    [][/\ (\E src \in Sources : AppImageLoaded(src))
            => state'.quad = CenteredQuad /\ state'.direction = DirSTOP
       /\ (\E src \in Sources : CanvasImageLoaded(src)) => zoomLevelRef' = One]_vars

\* C8: the phase of every compositor pass, on the visible canvas and in an
\* export frame, is in [0, 1).
C8_PhaseInUnitInterval ==
    /\ InUnitInterval(liveCanvas.p)
    /\ RunInProgress => InUnitInterval(exp.p)

---------------------------------------------------------------------------
(* Properties of computeHomography.                                        *)

\* What solveLinearSystem does with the system of the call in fn.
SolvedSystem ==
    Triangular(SystemA(fn.srcWidth, fn.srcHeight, fn.dst),
               SystemB(fn.srcWidth, fn.srcHeight, fn.dst), 1)

SolverX ==
    solveLinearSystem(SystemA(fn.srcWidth, fn.srcHeight, fn.dst),
                      SystemB(fn.srcWidth, fn.srcHeight, fn.dst))

\* C9: when the solver finds the 8x8 system singular, computeHomography
\* returns the identity matrix.
C9_SingularGivesIdentity ==
    fn.f = "computeHomography" /\ SolvedSystem.singular => fn.out = Identity

\* C10: computeHomography returns nine finite values, the ninth being 1, and
\* the identity matrix when a value of the solver's X is not finite.
C10_NineFiniteValues ==
    fn.f = "computeHomography"
      => /\ Len(fn.out) = 9
         /\ \A i \in 1..9 : IsFinite(fn.out[i])
         /\ fn.out[9] = One
         /\ (\E i \in 1..8 : ~IsFinite(SolverX[i])) => fn.out = Identity

\* A call on a quad with a corner that is not finite: the solver's X has a
\* value that is not finite and the call returned the identity matrix.
C10_Witness ==
    /\ fn.f = "computeHomography"
    /\ \E c \in Corners : ~IsFinite(fn.dst[c].x) \/ ~IsFinite(fn.dst[c].y)
    /\ \E i \in 1..8 : ~IsFinite(SolverX[i])
    /\ fn.out = Identity

---------------------------------------------------------------------------
(* Properties of invertMatrix and multiplyMatrix.                          *)

AllFinite(m) == \A i \in 1..Len(m) : IsFinite(m[i])

\* C11: invertMatrix of a matrix whose determinant is zero is the identity
\* matrix, nine finite values.
C11_SingularInverseIsIdentity ==
    fn.f = "invertMatrix" /\ Determinant(fn.m) = Zero
      => fn.out = Identity /\ Len(fn.out) = 9 /\ AllFinite(fn.out)

\* invertMatrix was called on a matrix of determinant zero that is not the
\* zero matrix and has no zero row: two equal rows.
C11_Witness ==
    /\ fn.f = "invertMatrix"
    /\ Determinant(fn.m) = Zero
    /\ SubSeq(fn.m, 1, 3) = SubSeq(fn.m, 4, 6)
    /\ \E i \in 1..3 : fn.m[i] # Zero
    /\ \E i \in 7..9 : fn.m[i] # Zero
    /\ fn.out = Identity

\* C12: for a matrix m of finite entries and determinant other than zero,
\* multiplyMatrix(invertMatrix(m), m) is the identity matrix; and
\* multiplyMatrix(a, b) is the product a.b, rows of a by columns of b:
\* multiplying by Shear from the right adds column 1 of a to its column 2.
C12_InverseTimesMatrixIsIdentity ==
    fn.f = "multiplyMatrix" /\ AllFinite(fn.m)
      => /\ fn.of = "inverse" /\ Determinant(fn.m) # Zero => fn.out = Identity
         /\ fn.of = "shear"
              => \A i \in 1..3 :
                    /\ At(fn.out, i, 1) = At(fn.a, i, 1)
                    /\ At(fn.out, i, 2) = RAdd(At(fn.a, i, 1), At(fn.a, i, 2))
                    /\ At(fn.out, i, 3) = At(fn.a, i, 3)

\* The product of the inverse of a matrix with that matrix, for a matrix of
\* determinant other than 1, 0, -1 whose inverse has no zero entry.
C12_Witness ==
    /\ fn.f = "multiplyMatrix" /\ fn.of = "inverse" /\ AllFinite(fn.m)
    /\ RGt(RAbs(Determinant(fn.m)), One)
    /\ \A i \in 1..9 : fn.a[i] # Zero
    /\ fn.out = Identity

---------------------------------------------------------------------------
(* Properties of computeHomography on a rectangle mapped to itself.        *)

\* C13: for w > 0 and h > 0, computeHomography(w, h, quad) with the quad
\* (0,0), (w,0), (w,h), (0,h) returns the identity matrix, and
\* solveLinearSystem solves its system to [1,0,0,0,1,0,0,0].
C13_RectangleGivesIdentity ==
    /\ fn.f \in {"computeHomography", "solveLinearSystem"}
    /\ RGt(fn.srcWidth, Zero) /\ RGt(fn.srcHeight, Zero)
    /\ fn.dst = RectQuad(fn.srcWidth, fn.srcHeight)
    => IF fn.f = "computeHomography" THEN fn.out = Identity
       ELSE fn.out = SubSeq(Identity, 1, 8)

---------------------------------------------------------------------------
(* Properties of the loop scale.                                           *)

\* The area enclosed by the polygon p1 p2 p3 p4 (the surveyor's formula).
PolygonArea(q) ==
    LET Cross(a, b) == RSub(RMul(a.x, b.y), RMul(b.x, a.y))
    IN  RMul(Rat(1, 2),
             RAbs(RAdd(RAdd(Cross(q.p1, q.p2), Cross(q.p2, q.p3)),
                       RAdd(Cross(q.p3, q.p4), Cross(q.p4, q.p1)))))

\* C14: getQuadArea returns the area of the polygon p1 p2 p3 p4; the loop scale
\* is sqrt(imageArea / quadArea) with that area in image pixels; for the
\* 800 x 600 image and the quad (0.25,0.25) .. (0.25,0.75) it is 2.
C14_LoopScaleFromPolygonArea ==
    LET area == PolygonArea(QPoints(fn.A, fn.iw, fn.ih))
    IN  /\ fn.f = "getQuadArea" => fn.out = area
        /\ fn.f = "renderCanvas"
             => fn.out[1] = Sqrt(RDiv(Num(fn.iw * fn.ih), area))
        /\ fn.f = "renderCanvas" /\ fn.iw = 800 /\ fn.ih = 600 /\ fn.A = CenteredQuad
             => fn.out[1] = Num(2)

\* Quad A is quad B moved by one vector.
IsTranslation(A, B) ==
    \A c \in Corners :
        /\ RSub(A[c].x, B[c].x) = RSub(A.p1.x, B.p1.x)
        /\ RSub(A[c].y, B[c].y) = RSub(A.p1.y, B.p1.y)

\* C15: for one image, a quad A of smaller enclosed area than a quad B has the
\* greater loop scale, and a quad moved without change of shape keeps its
\* loop scale.
C15_LoopScaleMonotone ==
    fn.f = "renderCanvas"
      => LET areaA == PolygonArea(QPoints(fn.A, fn.iw, fn.ih))
             areaB == PolygonArea(QPoints(fn.B, fn.iw, fn.ih))
         IN  /\ RLt(areaA, areaB) => RGt(fn.out[1], fn.out[2])
             /\ IsTranslation(fn.A, fn.B) => fn.out[1] = fn.out[2]

---------------------------------------------------------------------------
(* Properties of the export run.                                           *)

\* The frames of the run have been computed: the frame loop or the encoder
\* is at work.
RunCounted == exp.pc \in {"frames", "encoding"}

\* C16: a run issues max(10, floor(d * 30)) frames, d being 2/speed (constant
\* speed) or log(max(1.1, scale))/speed clamped to [0.2, 10]; the count is
\* between 10 and 300, every frame has delay 33, a run that reaches the
\* encoder has added exactly that many frames, and constant speed at speed 1
\* gives 60 frames.
C16_FrameCount ==
    RunCounted
      => LET speed == exp.st.zoomSpeed
             raw == IF exp.st.constantSpeed THEN RDiv(Num(2), speed)
                    ELSE RDiv(Ln(RMax(Rat(11, 10), exp.scale)), speed)
             d == RMax(Rat(1, 5), RMin(raw, Num(10)))
         IN  /\ Num(exp.total) = RMax(Num(10), RFloor(RMul(d, Num(30))))
             /\ 10 <= exp.total /\ exp.total <= 300
             /\ Len(exp.frames) <= exp.total
             /\ \A k \in 1..Len(exp.frames) : exp.frames[k].delay = 33
             /\ exp.pc = "encoding" => Len(exp.frames) = exp.total
             /\ exp.st.constantSpeed /\ speed = One => exp.total = 60

\* A constant-speed run at speed 1 has handed its 60 frames to the encoder.
C16_Witness ==
    /\ exp.pc = "encoding"
    /\ exp.st.constantSpeed /\ exp.st.zoomSpeed = One
    /\ Len(exp.frames) = 60
    /\ exp.frames[60].delay = 33

\* The frames a run has handed to the encoder carry the indices 0, 1, 2, ... in
\* this order.
FramesInOrder(e) == \A k \in 1..Len(e.frames) : e.frames[k].i = k - 1

\* C17: during an export run the frames reach the encoder in index order
\* 0 .. totalFrames-1, each once, each rendered by the step that adds it; after
\* frame i the progress is (i+1)/totalFrames, it never decreases during the run,
\* stays within [0, 1] and is 1 when the encoder is asked to render, which
\* happens only after all totalFrames frames were added.
C17_FramesInOrderThenRender ==
    [][ /\ (exp'.pc \in {"frames", "encoding"})
           => /\ FramesInOrder(exp')
              /\ Len(exp'.frames) <= exp'.total
              /\ RLe(Zero, state'.exportProgress) /\ RLe(state'.exportProgress, One)
        /\ (exp'.pc = "frames")
           => state'.exportProgress = Rat(Len(exp'.frames), exp'.total)
        /\ (Len(exp'.frames) = Len(exp.frames) + 1)
           => /\ exp'.frames[Len(exp'.frames)].i = Len(exp.frames)
              /\ exp'.frames[Len(exp'.frames)].p = exp'.p
              /\ loopScaleRef' = LoopScale(exp'.st.quad, ImageWidth(exp'.img),
                                           ImageHeight(exp'.img))
              /\ SubSeq(exp'.frames, 1, Len(exp.frames)) = exp.frames
        /\ (RunInProgress /\ RunInProgress')
           => RLe(state.exportProgress, state'.exportProgress)
        /\ (exp.pc = "frames" /\ exp'.pc = "encoding")
           => /\ Len(exp.frames) = exp.total
              /\ exp'.frames = exp.frames
              /\ state'.exportProgress = One
      ]_vars

\* A run has handed all its frames, the last one with index totalFrames-1, to
\* the encoder and asked it to render.
C17_Witness ==
    /\ exp.pc = "encoding"
    /\ exp.total >= 10
    /\ Len(exp.frames) = exp.total
    /\ exp.frames[exp.total].i = exp.total - 1
    /\ state.exportProgress = One

\* The phases of the frames a run has handed to the encoder, in order.
PhaseSequence(e) == [k \in 1..Len(e.frames) |-> e.frames[k].p]

\* C18: a run that has added all its frames has the frame count and the phase
\* sequence of the previous completed run whenever the two were started with
\* the same quad, image size, depth, speed, desired direction and
\* constant-speed flag, whatever ticks and edits preceded either run.
C18_FrameDeterminism ==
    (exp.pc = "encoding" /\ exp.prev # NoRun /\ exp.prev.params = exp.params)
      => /\ exp.total = exp.prev.total
         /\ PhaseSequence(exp) = exp.prev.phases

\* C19: transformPointSafe returns no point whenever w is below 1e-4, negative
\* w included, and every point it returns has |x| <= 50000 and |y| <= 50000.
C19_SafeTransformBounded ==
    fn.f = "transformPointSafe"
      => /\ RLt(fn.w, Rat(1, 10000)) => fn.out = NoPoint
         /\ fn.out # NoPoint
              => /\ RLe(RAbs(fn.out.x), Num(SAFE_COORDINATE_LIMIT))
                 /\ RLe(RAbs(fn.out.y), Num(SAFE_COORDINATE_LIMIT))

\* C20: for every 2x2 matrix of every eigenvalue regime getMatrixPower2x2 at
\* t = 0 is the identity and at t = 1 is the matrix itself, and one of the
\* three branches is taken.
C20_PowerZeroAndOne ==
    fn.f = "getMatrixPower2x2"
      => /\ fn.branch \in {"complex", "repeated", "distinct"}
         /\ fn.t = Zero => fn.out = [a |-> One, b |-> Zero, c |-> Zero, d |-> One]
         /\ fn.t = One => fn.out = [a |-> fn.a, b |-> fn.b, c |-> fn.c, d |-> fn.d]

\* C21: exactly one callback of the animation loop is pending at any time, the
\* one frameRef holds: every tick schedules the next one, whatever the
\* direction, the exporting flag, the image and the quad, and every re-run of
\* the effect cancels the pending callback and schedules one.
C21_OneTickChain ==
    /\ Cardinality(raf.pending) = 1
    /\ raf.frameRef \in raf.pending

\* A tick has run during an export of a dragged quad while playback is stopped.
C21_Witness ==
    /\ C21_OneTickChain
    /\ liveCanvas.t > 0 /\ lastTimeRef > liveCanvas.t
    /\ isExportingRef /\ state.direction = DirSTOP
    /\ state.quad # CenteredQuad


---------------------------------------------------------------------------
(* One compositor pass of renderCanvas, layer by layer: on an image of      *)
(* GridImage x GridImage pixels and a canvas of PassCanvas x PassCanvas,     *)
(* for the quads of PassQuads, a phase of PassPhases, a depth of PassDepths  *)
(* and both values of isExportMode.                                          *)

\* part_000 line 15.
START_LAYER == -2

PassCanvas == 16
PassDepths == {1, 3, 8}
PassPhases == {Zero, Rat(1, 2)}

\* The initial quad, a column of half the width, the whole image and a single
\* point; a quad of 1/32 of the image at its origin and a quad with three
\* corners on the diagonal.
PassQuads ==
    {CenteredQuad,
     Rectangle(Rat(1, 4), Zero, Rat(1, 2), One),
     Rectangle(Zero, Zero, One, One),
     Rectangle(Rat(1, 2), Rat(1, 2), Zero, Zero)}

\* Rendered at phase 0 only.
FarQuads ==
    {Rectangle(Zero, Zero, Rat(1, 32), Rat(1, 32)),
     [p1 |-> Pt(Rat(1, 4), Rat(1, 4)), p2 |-> Pt(Rat(1, 2), Rat(1, 2)),
      p3 |-> Pt(Rat(3, 4), Rat(3, 4)), p4 |-> Pt(Rat(1, 4), Rat(3, 4))]}

\* vp: every corner of the screen rectangle moved toward the quad's by p.
lerp(a, b, t) ==
    Pt(RAdd(a.x, RMul(RSub(b.x, a.x), t)), RAdd(a.y, RMul(RSub(b.y, a.y), t)))

\* The culling rectangle in image coordinates.
cullRect(width, height, iw, ih) ==
    LET scaleToFit == RMul(RMin(RDiv(Num(width), Num(iw)),
                                RDiv(Num(height), Num(ih))), Rat(9, 10))
        offsetX == RDiv(RSub(Num(width), RMul(Num(iw), scaleToFit)), Num(2))
        offsetY == RDiv(RSub(Num(height), RMul(Num(ih), scaleToFit)), Num(2))
    IN  [x |-> RDiv(RNeg(offsetX), scaleToFit),
         y |-> RDiv(RNeg(offsetY), scaleToFit),
         w |-> RDiv(Num(width), scaleToFit),
         h |-> RDiv(Num(height), scaleToFit)]

\* currentH before the first layer: the identity times HInv, -START_LAYER times.
SeedCurrentHOnce(HInv) == multiplyMatrix(Identity, HInv)

SeedCurrentH(HInv) == multiplyMatrix(multiplyMatrix(Identity, HInv), HInv)

\* The head of the layer loop.
LoopContinuesInclusive(j, depth) == j <= depth

LoopContinues(j, depth) == j < depth

\* The bounding box of the layer's projected corners and their number.
BoundingBox(corners) ==
    LET Step(b, pt) ==
            IF pt = NoPoint THEN b
            ELSE [minX |-> IF RLt(pt.x, b.minX) THEN pt.x ELSE b.minX,
                  maxX |-> IF RGt(pt.x, b.maxX) THEN pt.x ELSE b.maxX,
                  minY |-> IF RLt(pt.y, b.minY) THEN pt.y ELSE b.minY,
                  maxY |-> IF RGt(pt.y, b.maxY) THEN pt.y ELSE b.maxY,
                  validPoints |-> b.validPoints + 1]
        b0 == [minX |-> PosInf, maxX |-> NegInf, minY |-> PosInf,
               maxY |-> NegInf, validPoints |-> 0]
        b == Step(Step(Step(Step(b0, corners[1]), corners[2]), corners[3]),
                  corners[4])
    IN  [validPoints |-> b.validPoints,
         projectedWidth |-> RSub(b.maxX, b.minX),
         projectedHeight |-> RSub(b.maxY, b.minY)]

\* The test before `break`.
LayerCulledBoth(box) ==
    /\ box.validPoints > 0
    /\ RLt(box.projectedWidth, Rat(1, 2)) /\ RLt(box.projectedHeight, Rat(1, 2))

LayerCulled(box) ==
    /\ box.validPoints > 0
    /\ (RLt(box.projectedWidth, Rat(1, 2)) \/ RLt(box.projectedHeight, Rat(1, 2)))

gridSize(box, isExportMode) ==
    LET baseGridSize == IF isExportMode THEN 20 ELSE 10
        metric == RMax(box.projectedWidth, box.projectedHeight)
        calculated == RFloor(RDiv(metric, Num(150)))
    IN  IF box.validPoints < 4 THEN (IF isExportMode THEN 16 ELSE 10)
        ELSE RMax(Num(2), RMin(Num(baseGridSize), calculated)).n

\* JavaScript's undefined, the value of p?.x for a null p.
Undefined == [undefined |-> TRUE]

\* (a || 0 + b || 0 + c || 0) / 3 as JavaScript parses it: + binds tighter
\* than ||, so it is (a || (0 + b) || (0 + c) || 0) / 3, and 0, NaN and
\* undefined are the falsy values.
CullCentre(a, b, c) ==
    LET Truthy(v) == v # Undefined /\ ~IsNaN(v) /\ v.n # 0
        Plus(v) == IF v = Undefined THEN NaN ELSE RAdd(Zero, v)
    IN  RDiv(IF Truthy(a) THEN a
             ELSE IF Truthy(Plus(b)) THEN Plus(b)
             ELSE IF Truthy(Plus(c)) THEN Plus(c)
             ELSE Zero, Num(3))

\* The test before `continue`.
CellSkipped(cx, cy, rect) ==
    \/ RLt(cx, RSub(rect.x, Num(5000)))
    \/ RGt(cx, RAdd(RAdd(rect.x, rect.w), Num(5000)))
    \/ RLt(cy, RSub(rect.y, Num(5000)))
    \/ RGt(cy, RAdd(RAdd(rect.y, rect.h), Num(5000)))

\* du1 * dv2 - du2 * dv1 of three points.
TriangleDet(pts) ==
    RSub(RMul(RSub(pts[2].x, pts[1].x), RSub(pts[3].y, pts[1].y)),
         RMul(RSub(pts[3].x, pts[1].x), RSub(pts[2].y, pts[1].y)))

\* drawPaddedTriangle: the canvas calls it makes, with the padded screen
\* points the clip path is drawn through.
drawPaddedTriangle(screenPts, imagePts, padding) ==
    LET cx == RDiv(RAdd(RAdd(screenPts[1].x, screenPts[2].x), screenPts[3].x), Num(3))
        cy == RDiv(RAdd(RAdd(screenPts[1].y, screenPts[2].y), screenPts[3].y), Num(3))
        pad(p) == IF RLe(padding, Zero) THEN p
                  ELSE Pt(RAdd(cx, RMul(RSub(p.x, cx), Rat(103, 100))),
                          RAdd(cy, RMul(RSub(p.y, cy), Rat(103, 100))))
        det == TriangleDet(imagePts)
    IN  IF RLt(RAbs(det), [n |-> 1, d |-> 1, e |-> 1]) THEN <<>>
        ELSE <<[screenPts |-> screenPts, imagePts |-> imagePts,
                path |-> <<pad(screenPts[1]), pad(screenPts[2]), pad(screenPts[3])>>,
                calls |-> <<"save", "beginPath", "moveTo", "lineTo", "lineTo",
                            "closePath", "clip", "transform", "drawImage",
                            "restore">>]>>

\* One cell (x, y) of the grid of a layer, in three steps: its source
\* coordinates and four transformed corners, the cull test, and the
\* triangles drawn.
CellCorners(layerMatrix, x, y, u1, v1, u2, v2) ==
    [x |-> x, y |-> y, u1 |-> u1, v1 |-> v1, u2 |-> u2, v2 |-> v2,
     p1 |-> transformPointSafe(layerMatrix, u1, v1),
     p2 |-> transformPointSafe(layerMatrix, u2, v1),
     p3 |-> transformPointSafe(layerMatrix, u1, v2),
     p4 |-> transformPointSafe(layerMatrix, u2, v2)]

CellCentre(c) ==
    LET X(p) == IF p = NoPoint THEN Undefined ELSE p.x
        Y(p) == IF p = NoPoint THEN Undefined ELSE p.y
    IN  [x |-> CullCentre(X(c.p1), X(c.p2), X(c.p3)),
         y |-> CullCentre(Y(c.p1), Y(c.p2), Y(c.p3))]

CellDrawn(c, centre, skipped) ==
    [x |-> c.x, y |-> c.y, p1 |-> c.p1, p2 |-> c.p2, p3 |-> c.p3, p4 |-> c.p4,
     cx |-> centre.x, cy |-> centre.y, skipped |-> skipped,
     draws |->
        IF skipped THEN <<>>
        ELSE (IF c.p1 # NoPoint /\ c.p2 # NoPoint /\ c.p3 # NoPoint
              THEN drawPaddedTriangle(<<c.p1, c.p2, c.p3>>,
                      <<Pt(c.u1, c.v1), Pt(c.u2, c.v1), Pt(c.u1, c.v2)>>, One)
              ELSE <<>>)
             \o
             (IF c.p2 # NoPoint /\ c.p4 # NoPoint /\ c.p3 # NoPoint
              THEN drawPaddedTriangle(<<c.p2, c.p4, c.p3>>,
                      <<Pt(c.u2, c.v1), Pt(c.u2, c.v2), Pt(c.u1, c.v2)>>, One)
              ELSE <<>>)]

CellCulled(c, centre, rect) ==
    CellDrawn(c, centre, CellSkipped(centre.x, centre.y, rect))

CellCentred(c, rect) == CellCulled(c, CellCentre(c), rect)

GridCell(layerMatrix, x, y, g, iw, ih, rect) ==
    CellCentred(CellCorners(layerMatrix, x, y,
                            RMul(Rat(x, g), Num(iw)), RMul(Rat(y, g), Num(ih)),
                            RMul(Rat(x + 1, g), Num(iw)),
                            RMul(Rat(y + 1, g), Num(ih))),
                rect)

PassInputs ==
    {i \in [f : {"renderCanvas"}, pc : {"start"}, iw : {GridImage},
            ih : {GridImage}, width : {PassCanvas}, height : {PassCanvas},
            quad : PassQuads \cup FarQuads, p : PassPhases,
            depth : PassDepths, isExportMode : BOOLEAN] :
        i.quad \in FarQuads => i.p = Zero}

InitPass == InitApp /\ fn \in PassInputs

\* Lines 299 to 344: the matrices, the culling rectangle and currentH.  Each
\* local is computed once and bound to a name.
PassStart ==
    /\ fn.f = "renderCanvas" /\ fn.pc = "start"
    /\ \E qPoints \in {QPoints(fn.quad, fn.iw, fn.ih)} :
       \E screenRect \in {Rectangle(Zero, Zero, Num(fn.iw), Num(fn.ih))} :
       \E vp \in {[c \in Corners |-> lerp(screenRect[c], qPoints[c], fn.p)]} :
       \E M \in {computeHomography(Num(fn.iw), Num(fn.ih), vp)} :
       \E H \in {computeHomography(Num(fn.iw), Num(fn.ih), qPoints)} :
       \E HInv \in {invertMatrix(H)} :
          fn' = [f |-> "renderCanvas", pc |-> "layer", iw |-> fn.iw, ih |-> fn.ih,
                 depth |-> fn.depth, isExportMode |-> fn.isExportMode,
                 quad |-> fn.quad, p |-> fn.p,
                 K |-> invertMatrix(M), H |-> H, HInv |-> HInv,
                 cullRect |-> cullRect(fn.width, fn.height, fn.iw, fn.ih),
                 currentH |-> SeedCurrentH(HInv), j |-> START_LAYER,
                 layers |-> <<>>]
    /\ UNCHANGED appVars

\* One iteration of the layer loop, lines 346 to 426: the layer is culled and
\* the loop left, or its grid is drawn and currentH advanced.
PassLayer ==
    /\ fn.f = "renderCanvas" /\ fn.pc = "layer"
    /\ LoopContinues(fn.j, fn.depth)
    /\ \E layerMatrix \in {multiplyMatrix(fn.K, fn.currentH)} :
       \E box \in {BoundingBox(
                      <<transformPointSafe(layerMatrix, Zero, Zero),
                        transformPointSafe(layerMatrix, Num(fn.iw), Zero),
                        transformPointSafe(layerMatrix, Num(fn.iw), Num(fn.ih)),
                        transformPointSafe(layerMatrix, Zero, Num(fn.ih))>>)} :
       \E culled \in {LayerCulled(box)} :
       \E g \in {gridSize(box, fn.isExportMode)} :
          fn' = [fn EXCEPT
                   !.pc = IF culled THEN "done" ELSE "layer",
                   !.layers = Append(@,
                      [j |-> fn.j, currentH |-> fn.currentH,
                       layerMatrix |-> layerMatrix, box |-> box,
                       culled |-> culled,
                       gridSize |-> IF culled THEN 0 ELSE g,
                       cells |-> IF culled THEN <<>>
                                 ELSE [i \in 1..(g * g) |->
                                         GridCell(layerMatrix, (i - 1) % g,
                                                  (i - 1) \div g, g, fn.iw,
                                                  fn.ih, fn.cullRect)]]),
                   !.currentH = IF culled THEN @ ELSE multiplyMatrix(@, fn.H),
                   !.j = IF culled THEN @ ELSE @ + 1]
    /\ UNCHANGED appVars

\* The loop ends at j = depth: ctx.restore(), line 428.
PassEnd ==
    /\ fn.f = "renderCanvas" /\ fn.pc = "layer"
    /\ ~LoopContinues(fn.j, fn.depth)
    /\ fn' = [fn EXCEPT !.pc = "done"]
    /\ UNCHANGED appVars

NextPass == PassStart \/ PassLayer \/ PassEnd

SpecPass == InitPass /\ [][NextPass]_vars


\* The number of triangles drawn in the first n cells of a layer.
RECURSIVE LayerCalls(_, _)
LayerCalls(cells, n) ==
    IF n = 0 THEN 0 ELSE LayerCalls(cells, n - 1) + Len(cells[n].draws)

C23_PassTerminates ==
    /\ [](fn.f = "renderCanvas" /\ fn.pc # "start"
            => /\ \A i \in 1..Len(fn.layers) :
                    /\ fn.layers[i].j = START_LAYER + i - 1
                    /\ fn.layers[i].j < fn.depth
               /\ Len(fn.layers) <= fn.depth + 2
               /\ fn.j <= fn.depth
               /\ fn.pc = "layer" => fn.j = START_LAYER + Len(fn.layers))
    /\ [][fn.pc = "layer" => fn.pc' = "done" \/ fn.j' = fn.j + 1]_vars

\* A pass of depth 1 has drawn the three layers -2, -1 and 0 and ended.
C23_Witness ==
    /\ fn.f = "renderCanvas" /\ fn.pc = "done" /\ fn.depth = 1
    /\ Len(fn.layers) = 3
    /\ \A i \in 1..3 :
          LayerCalls(fn.layers[i].cells, Len(fn.layers[i].cells)) > 0


\* m^k for k >= 0, by multiplications from the left.
RECURSIVE MatrixPower(_, _)
MatrixPower(m, k) ==
    IF k <= 0 THEN Identity ELSE multiplyMatrix(m, MatrixPower(m, k - 1))

\* C24: at the iteration for layer j, currentH is HInv . HInv . H^(j + 2) and
\* the layer is drawn with K . currentH; where HInv is the inverse of H this
\* is K . H^j for j >= 0, K . HInv^(-j) for j < 0 and K itself for layer 0.
C24_LayerChain ==
    fn.f = "renderCanvas" /\ fn.pc # "start"
      => \A i \in 1..Len(fn.layers) :
            LET l == fn.layers[i]
            IN  /\ l.currentH = multiplyMatrix(multiplyMatrix(fn.HInv, fn.HInv),
                                               MatrixPower(fn.H, l.j + 2))
                /\ l.layerMatrix = multiplyMatrix(fn.K, l.currentH)
                /\ multiplyMatrix(fn.H, fn.HInv) = Identity
                     => /\ l.j >= 0
                            => l.layerMatrix
                                 = multiplyMatrix(fn.K, MatrixPower(fn.H, l.j))
                        /\ l.j < 0
                            => l.layerMatrix
                                 = multiplyMatrix(fn.K, MatrixPower(fn.HInv, -l.j))
                        /\ l.j = 0 => l.layerMatrix = fn.K

\* Half way into the initial quad, layers -2 to 1 have been drawn: H is
\* invertible and neither H nor K is the identity.
C24_Witness ==
    /\ fn.f = "renderCanvas" /\ fn.pc = "layer" /\ fn.j = 2
    /\ fn.p = Rat(1, 2) /\ fn.quad = CenteredQuad
    /\ fn.H # Identity /\ fn.K # Identity
    /\ multiplyMatrix(fn.H, fn.HInv) = Identity
    /\ Len(fn.layers) = 4
    /\ fn.layers[3].layerMatrix = fn.K
    /\ fn.layers[4].layerMatrix = multiplyMatrix(fn.K, fn.H)
    /\ \A i \in 1..4 :
          LayerCalls(fn.layers[i].cells, Len(fn.layers[i].cells)) > 0


\* The mean of the coordinates a, b, c of a cell's corners p1, p2, p3, a
\* missing corner counting as 0.
MeanOfCorners(a, b, c) ==
    LET V(v) == IF v = Undefined THEN Zero ELSE v
    IN  RDiv(RAdd(RAdd(V(a), V(b)), V(c)), Num(3))

\* C25: a cell of a layer's grid is skipped exactly when the centroid of its
\* transformed corners p1, p2, p3 lies more than 5000 units outside the cull
\* rectangle on some side.
C25_CellCulledByCentroid ==
    fn.f = "renderCanvas" /\ fn.pc # "start"
      => \A i \in 1..Len(fn.layers) :
            \A k \in 1..Len(fn.layers[i].cells) :
               LET c == fn.layers[i].cells[k]
                   X(p) == IF p = NoPoint THEN Undefined ELSE p.x
                   Y(p) == IF p = NoPoint THEN Undefined ELSE p.y
               IN  c.skipped
                     <=> CellSkipped(MeanOfCorners(X(c.p1), X(c.p2), X(c.p3)),
                                     MeanOfCorners(Y(c.p1), Y(c.p2), Y(c.p3)),
                                     fn.cullRect)


\* C26: every triangle the pass draws has three transformed corners that are
\* points, a source triangle and a destination triangle (its transformed
\* corners) with |determinant| >= 1e-6: a triangle with a near-zero area on
\* either side gets no canvas call.
C26_DegenerateTriangleSkipped ==
    fn.f = "renderCanvas" /\ fn.pc # "start"
      => \A i \in 1..Len(fn.layers) :
            \A k \in 1..Len(fn.layers[i].cells) :
               LET c == fn.layers[i].cells[k]
               IN  \A t \in 1..Len(c.draws) :
                      /\ \A n \in 1..3 : c.draws[t].screenPts[n] # NoPoint
                      /\ ~RLt(RAbs(TriangleDet(c.draws[t].imagePts)),
                              [n |-> 1, d |-> 1, e |-> 1])
                      /\ ~RLt(RAbs(TriangleDet(c.draws[t].screenPts)),
                              [n |-> 1, d |-> 1, e |-> 1])


\* C27: desiredDirection is always IN or OUT and the direction is STOP or
\* desiredDirection; a togglePlay leads to a state from which a second
\* togglePlay gives the direction back; a toggleDirectionPreference while
\* stopped leaves the playback stopped, and while playing turns it to the new
\* preference.
C27_DirectionPreference ==
    /\ [](/\ state.desiredDirection \in {DirIN, DirOUT}
          /\ state.direction \in {DirSTOP, state.desiredDirection})
    /\ [][togglePlay
            => /\ state'.desiredDirection = state.desiredDirection
               /\ state'.direction # state.direction
               /\ (IF state'.direction = DirSTOP THEN state'.desiredDirection
                   ELSE DirSTOP) = state.direction]_vars
    /\ [][toggleDirectionPreference
            => /\ state'.desiredDirection # state.desiredDirection
               /\ state.direction = DirSTOP => state'.direction = DirSTOP
               /\ state.direction # DirSTOP
                    => state'.direction = state'.desiredDirection]_vars

\* Playback runs outward: the preference has been toggled and play pressed
\* on a loaded image.
C27_Witness ==
    /\ state.imageSrc # NoImage
    /\ state.desiredDirection = DirOUT /\ state.direction = DirOUT


\* C28: at most one generateGif run is in progress: while a run is between
\* its start and its end isExportingRef is set; a run starts only in a step
\* that turns state.isExporting from false to true while no run is in
\* progress and isExportingRef is false, and the step sets isExportingRef; the
\* GIF button fires only while state.isExporting is false; isExportingRef is
\* cleared only by the step that ends the run in progress; and the run in
\* progress is not replaced, its frames being added one after the other.
C28_OneExportRun ==
    /\ [](exp.pc # "idle" => isExportingRef)
    /\ [][exp'.pc = "init" /\ (exp.pc # "init" \/ ClickGif)
            => /\ exp.pc = "idle" /\ ~isExportingRef /\ isExportingRef'
               /\ ~state.isExporting /\ state'.isExporting]_vars
    /\ [][ClickGif => ~state.isExporting]_vars
    /\ [][isExportingRef /\ ~isExportingRef'
            => exp.pc # "idle" /\ exp'.pc = "idle"]_vars
    /\ [][exp.pc # "idle" /\ exp'.pc # "idle"
            => /\ exp'.params = exp.params
               /\ Len(exp'.frames) \in {Len(exp.frames), Len(exp.frames) + 1}
               /\ \A k \in 1..Len(exp.frames) : exp'.frames[k] = exp.frames[k]]_vars

\* A second run is adding frames after the first has finished.
C28_Witness ==
    /\ exp.pc = "frames" /\ Len(exp.frames) > 0
    /\ exp.prev # NoRun
    /\ isExportingRef /\ state.isExporting


\* C29: every frame of a run is rendered from the values the run was started
\* with: in a step that adds a frame, the quad, depth, speed, constant-speed
\* flag and desired direction generateGif and its renderCanvas read are those
\* of the state that triggered the run, and the frame count stays what step 4
\* computed.
C29_FramesFromCapturedValues ==
    [][exp.pc = "frames" /\ Len(exp'.frames) = Len(exp.frames) + 1
         => /\ RunParams(exp.st, exp.img) = exp.params
            /\ exp'.total = exp.total]_vars


\* C30: a tick taken while the direction is STOP or while no image element is
\* loaded leaves zoomLevelRef as it was and stores its time in lastTimeRef,
\* and what it renders of the same image and quad has the phase displayed
\* before; a tick that advances the zoom does so by the time since the tick
\* before it, stopped or not (by 0 if it is the first tick).
C30_StoppedTickKeepsZoom ==
    [][\A time \in FrameTimes :
          Tick(time)
            => /\ lastTimeRef' = time
               /\ state.direction = DirSTOP \/ imageEl = NoImage
                    => /\ zoomLevelRef' = zoomLevelRef
                       /\ (/\ liveCanvas'.t = time /\ liveCanvas.t > 0
                           /\ liveCanvas.img = imageEl
                           /\ liveCanvas.quad = state.quad)
                            => liveCanvas'.p = liveCanvas.p
               /\ (state.direction # DirSTOP /\ ~isExportingRef /\ imageEl # NoImage)
                    => zoomLevelRef'
                         = AdvanceZoom(zoomLevelRef, loopScaleRef, state.zoomSpeed,
                                       Rat(time - (IF lastTimeRef = 0 THEN time
                                                   ELSE lastTimeRef), 1000),
                                       state.direction, state.constantSpeed)]_vars

\* Two ticks have rendered the loaded image and play was never pressed: the
\* upload is the only event so far.
C30_Witness ==
    /\ events = 1 /\ imageEl # NoImage /\ state.direction = DirSTOP
    /\ lastTimeRef = 1000 /\ liveCanvas.t = 1000 /\ liveCanvas.img = imageEl
    /\ zoomLevelRef = One

=============================================================================
